---- MODULE Spec2Model ----
(***************************************************************************)
(* A model of the quantizer's recipe manager, tensor materializer and      *)
(* graph transformations.  Each component has its own specification:       *)
(*   RecipeSpec       RecipeManager (recipe_manager.py)                     *)
(*   GraphSpec        quantize_tensor, insert_dequant and the edit plan     *)
(*   MaterializeSpec  the materialize_* and check_* functions               *)
(* The variables of the components a specification does not exercise stay  *)
(* at their initial value.                                                 *)
(***************************************************************************)
EXTENDS Integers, Sequences, FiniteSets, TLC

VARIABLES
    scope_configs,  \* RecipeManager._scope_configs, an OrderedDict as a sequence of items
    n_adds,         \* number of add_quantization_config calls made so far
    call,           \* the last RecipeManager call: arguments, outcome, and the
                    \* rule list its scope held when it was made
    loaded,         \* the recipe of the last load_quantization_recipe that returned,
                    \* if no rule was added since
    op_codes,       \* model.operatorCodes
    buffers,        \* model.buffers
    tensors,        \* subgraph.tensors
    operators,      \* subgraph.operators
    plan,           \* the edit plan of the subgraph, in original operator indices
    cursor,         \* number of edits of the plan applied so far
    infos,          \* the TransformationInfo every applied edit returned
    aborted,        \* an edit raised: the run is over
    quant_call,         \* a range, a bit width and a tensor, and what the codec made of them so far
    tensor_qsv,         \* the min/max statistics kept for one activation tensor
    calibrate_calls,    \* the calibration batches seen so far, with their smoothing factors
    current_op_info,    \* the operator being materialized and its config
    current_graph_info, \* the graph view: subgraph tensors and buffers
    calibration_qsvs,   \* the calibration results, by tensor name
    materialized,   \* what the materialize_* or check_* call returned or raised, if called
    materialize_call,   \* which call that was, with the arguments the operator does not carry
    transformations_call \* the last get_tensor_transformations call, if any

recipe_vars == <<scope_configs, n_adds, call, loaded>>
graph_vars == <<op_codes, buffers, tensors, operators, plan, cursor, infos, aborted>>
codec_vars == <<quant_call, tensor_qsv, calibrate_calls>>
materialize_vars == <<current_op_info, current_graph_info, calibration_qsvs, materialized, materialize_call, transformations_call>>
vars == <<scope_configs, n_adds, call, loaded,
          op_codes, buffers, tensors, operators, plan, cursor, infos, aborted,
          current_op_info, current_graph_info, calibration_qsvs, materialized, materialize_call, transformations_call,
          quant_call, tensor_qsv, calibrate_calls>>

(***************************************************************************)
(* Bounds                                                                  *)
(***************************************************************************)
\* add_quantization_config calls in one run
MaxAdds == 3
\* edits in one edit plan
MaxEdits == 2
\* calibration batches of one tensor
MaxUpdates == 3

(***************************************************************************)
(* qtyping.TFLOperationName, algorithm keys, op configs                    *)
(***************************************************************************)
ALL == "*"
FULLY_CONNECTED == "FULLY_CONNECTED"
CUSTOM_OP == "CUSTOM_OP"
TFLOpNames == {ALL, FULLY_CONNECTED, CUSTOM_OP}

NO_QUANT == "no_quant"
PTQ == "ptq"
AlgorithmKeys == {NO_QUANT, PTQ}

\* Op configs are opaque to the recipe manager: _OpQuantizationConfig(), the
\* default, is 0 and the k-th add_quantization_config call passes config k, so
\* that every stored rule can be told from every other by its config.
DefaultOpConfig == 0

\* algorithm_manager.is_op_registered(algorithm_key, operation_name): the
\* min/max algorithm registers FULLY_CONNECTED and has no entry for CUSTOM_OP.
is_op_registered(algorithm_key, operation_name) ==
    algorithm_key = PTQ /\ operation_name = FULLY_CONNECTED

(***************************************************************************)
(* re.search over a small regular-expression language: a pattern is a      *)
(* sequence of characters, "." matches any character and "*" repeats the   *)
(* character before it.                                                    *)
(***************************************************************************)
RECURSIVE match_here(_, _)
RECURSIVE match_star(_, _, _)
match_here(pattern, text) ==
    IF pattern = <<>> THEN TRUE
    ELSE IF Len(pattern) >= 2 /\ pattern[2] = "*"
         THEN match_star(pattern[1], SubSeq(pattern, 3, Len(pattern)), text)
    ELSE IF text # <<>> /\ (pattern[1] = "." \/ pattern[1] = text[1])
         THEN match_here(Tail(pattern), Tail(text))
    ELSE FALSE

match_star(c, pattern, text) ==
    \/ match_here(pattern, text)
    \/ /\ text # <<>>
       /\ (c = "." \/ c = text[1])
       /\ match_star(c, pattern, Tail(text))

\* re.search(pattern, text): the pattern matches somewhere in the text.
re_search(pattern, text) ==
    \E i \in 1..(Len(text) + 1) : match_here(pattern, SubSeq(text, i, Len(text)))

ScopeRegexes == { <<".", "*">>, <<"b">> }
ScopeNames == { <<"a", "b">>, <<"a">> }

(***************************************************************************)
(* OpQuantizationRecipe and the OrderedDict of scopes                      *)
(***************************************************************************)
OpQuantizationRecipe(regex, operation, algorithm_key, op_config, override_algorithm) ==
    [regex |-> regex, operation |-> operation, algorithm_key |-> algorithm_key,
     op_config |-> op_config, override_algorithm |-> override_algorithm]

\* Position of a key in the OrderedDict, 0 when absent.
scope_index(configs, regex) ==
    IF \E i \in 1..Len(configs) : configs[i].regex = regex
    THEN CHOOSE i \in 1..Len(configs) : configs[i].regex = regex
    ELSE 0

\* self._scope_configs[regex], <<>> when the key is absent.
scope_recipes(configs, regex) ==
    IF scope_index(configs, regex) = 0 THEN <<>>
    ELSE configs[scope_index(configs, regex)].recipes

\* OrderedDict.__setitem__: an existing key keeps its position, a new key
\* goes last.
ordered_dict_set(configs, regex, recipes) ==
    IF scope_index(configs, regex) = 0
    THEN Append(configs, [regex |-> regex, recipes |-> recipes])
    ELSE [configs EXCEPT ![scope_index(configs, regex)].recipes = recipes]

(***************************************************************************)
(* RecipeManager.add_quantization_config                                   *)
(***************************************************************************)
\* Mutant: the ALL rule is appended to the scope instead of replacing it.
reset_scope_appending(configs, config) ==
    ordered_dict_set(configs, config.regex,
                     Append(scope_recipes(configs, config.regex), config))

\* The ALL branch: self._scope_configs[regex] = [config]
reset_scope(configs, config) ==
    ordered_dict_set(configs, config.regex, <<config>>)

\* Mutant: the new rule goes last whatever the list holds.
reiterate_configs_appending(existing, config) == Append(existing, config)

\* Mutant: the rule of the same operation is dropped and the new rule goes last.
reiterate_configs_moving_to_end(existing, config) ==
    LET is_other(r) == r.operation # config.operation
    IN Append(SelectSeq(existing, is_other), config)

\* The loop that rebuilds a scope's list: the rule of the same operation is
\* replaced where it stands, a rule of a new operation goes last.
reiterate_configs(existing, config) ==
    LET configs == [i \in 1..Len(existing) |->
                       IF existing[i].operation = config.operation
                       THEN config ELSE existing[i]]
        is_new_op == \A i \in 1..Len(existing) :
                        existing[i].operation # config.operation
    IN IF is_new_op THEN Append(configs, config) ELSE configs

\* Mutant: the operation is not looked up in the algorithm manager.
add_quantization_config_unchecked(configs, regex, operation_name, op_config, algorithm_key, override_algorithm) ==
    LET config == OpQuantizationRecipe(regex, operation_name, algorithm_key,
                                       op_config, override_algorithm)
    IN IF config.operation = ALL
       THEN [raised |-> FALSE, scope_configs |-> reset_scope(configs, config)]
       ELSE IF scope_index(configs, regex) = 0
       THEN [raised |-> FALSE,
             scope_configs |-> ordered_dict_set(configs, regex, <<config>>)]
       ELSE [raised |-> FALSE,
             scope_configs |-> ordered_dict_set(configs, regex,
                 reiterate_configs(scope_recipes(configs, regex), config))]

\* The whole call: [raised, scope_configs].
add_quantization_config(configs, regex, operation_name, op_config, algorithm_key, override_algorithm) ==
    LET config == OpQuantizationRecipe(regex, operation_name, algorithm_key,
                                       op_config, override_algorithm)
    IN IF config.operation = ALL
       THEN [raised |-> FALSE, scope_configs |-> reset_scope(configs, config)]
       ELSE IF algorithm_key # NO_QUANT
               /\ ~is_op_registered(algorithm_key, operation_name)
       THEN [raised |-> TRUE, scope_configs |-> configs]
       ELSE IF scope_index(configs, regex) = 0
       THEN [raised |-> FALSE,
             scope_configs |-> ordered_dict_set(configs, regex, <<config>>)]
       ELSE [raised |-> FALSE,
             scope_configs |-> ordered_dict_set(configs, regex,
                 reiterate_configs(scope_recipes(configs, regex), config))]

(***************************************************************************)
(* RecipeManager.get_quantization_configs                                  *)
(***************************************************************************)
\* Mutant: the override flag is not consulted, every applicable rule wins.
match_recipe_always_override(result, recipe, target_op_name) ==
    IF recipe.operation # ALL /\ recipe.operation # target_op_name
    THEN result
    ELSE [key |-> recipe.algorithm_key, config |-> recipe.op_config]

\* The body of the inner loop, for one recipe: the running result after it.
match_recipe(result, recipe, target_op_name) ==
    IF recipe.operation # ALL /\ recipe.operation # target_op_name
    THEN result
    ELSE IF result.key # recipe.algorithm_key
         THEN IF recipe.override_algorithm
              THEN [key |-> recipe.algorithm_key, config |-> recipe.op_config]
              ELSE result
         ELSE [result EXCEPT !.config = recipe.op_config]

\* for recipe in recipes: ...
RECURSIVE match_recipes(_, _, _)
match_recipes(result, recipes, target_op_name) ==
    IF recipes = <<>> THEN result
    ELSE match_recipes(match_recipe(result, Head(recipes), target_op_name),
                       Tail(recipes), target_op_name)

\* Mutant: the scope regex has to match the whole scope name.
scope_matches_whole_name(scope_regex, scope_name) ==
    match_here(scope_regex \o <<"$">>, scope_name \o <<"$">>)

\* if re.search(scope_regex, scope_name):
scope_matches(scope_regex, scope_name) == re_search(scope_regex, scope_name)

\* for scope_regex, recipes in self._scope_configs.items(): ...
RECURSIVE match_scopes(_, _, _, _)
match_scopes(result, configs, target_op_name, scope_name) ==
    IF configs = <<>> THEN result
    ELSE match_scopes(
             IF scope_matches(Head(configs).regex, scope_name)
             THEN match_recipes(result, Head(configs).recipes, target_op_name)
             ELSE result,
             Tail(configs), target_op_name, scope_name)

get_quantization_configs(configs, target_op_name, scope_name) ==
    match_scopes([key |-> NO_QUANT, config |-> DefaultOpConfig],
                 configs, target_op_name, scope_name)

(***************************************************************************)
(* RecipeManager.get_quantization_recipe and load_quantization_recipe      *)
(***************************************************************************)
\* _OpQuantizationConfig.to_dict and from_dict: the dict of an op config
\* and the op config of a dict
to_dict(op_config) == [op_config |-> op_config]

from_dict(dict) == dict.op_config

\* One record of the recipe for every stored rule, scopes in the order of
\* the OrderedDict and rules in list order.
RECURSIVE get_quantization_recipe(_)
get_quantization_recipe(configs) ==
    IF configs = <<>> THEN <<>>
    ELSE [i \in 1..Len(Head(configs).recipes) |->
             [regex |-> Head(configs).recipes[i].regex,
              operation |-> Head(configs).recipes[i].operation,
              algorithm_key |-> Head(configs).recipes[i].algorithm_key,
              op_config |-> to_dict(Head(configs).recipes[i].op_config),
              override_algorithm |-> Head(configs).recipes[i].override_algorithm]]
         \o get_quantization_recipe(Tail(configs))

\* for config in quantization_recipe: self.add_quantization_config(...),
\* up to the first call that raises; n_calls counts the calls made.
RECURSIVE add_recipe_records(_, _)
add_recipe_records(configs, quantization_recipe) ==
    IF quantization_recipe = <<>>
    THEN [raised |-> FALSE, scope_configs |-> configs, n_calls |-> 0]
    ELSE LET config == Head(quantization_recipe)
             added == add_quantization_config(configs, config.regex, config.operation,
                          from_dict(config.op_config), config.algorithm_key,
                          config.override_algorithm)
         IN IF added.raised
            THEN [raised |-> TRUE, scope_configs |-> added.scope_configs, n_calls |-> 1]
            ELSE LET rest == add_recipe_records(added.scope_configs, Tail(quantization_recipe))
                 IN [rest EXCEPT !.n_calls = @ + 1]

\* Mutant: the rules held before the load are kept.
load_quantization_recipe_keeping_rules(configs, quantization_recipe) ==
    add_recipe_records(configs, quantization_recipe)

\* self._scope_configs = OrderedDict(), then the records one by one.
load_quantization_recipe(configs, quantization_recipe) ==
    add_recipe_records(<<>>, quantization_recipe)

(***************************************************************************)
(* The recipe manager as a state machine                                   *)
(***************************************************************************)
NoCall == [name |-> "none", regex |-> <<>>, operation |-> ALL,
           algorithm_key |-> NO_QUANT, op_config |-> DefaultOpConfig,
           override_algorithm |-> TRUE, scope_name |-> <<>>,
           before |-> <<>>, raised |-> FALSE, recipe |-> <<>>,
           result |-> [key |-> NO_QUANT, config |-> DefaultOpConfig]]

RecipeIdle ==
    /\ scope_configs = <<>>
    /\ n_adds = 0
    /\ call = NoCall
    /\ loaded = <<>>

GraphIdle ==
    /\ op_codes = <<>>
    /\ buffers = <<>>
    /\ tensors = <<>>
    /\ operators = <<>>
    /\ plan = <<>>
    /\ cursor = 0
    /\ infos = <<>>
    /\ aborted = FALSE

MaterializeIdle ==
    /\ current_op_info = <<>>
    /\ current_graph_info = <<>>
    /\ calibration_qsvs = <<>>
    /\ materialized = <<>>
    /\ materialize_call = <<>>
    /\ transformations_call = <<>>

CodecIdle ==
    /\ quant_call = <<>>
    /\ tensor_qsv = <<>>
    /\ calibrate_calls = <<>>

InitRecipe == RecipeIdle /\ GraphIdle /\ MaterializeIdle /\ CodecIdle

AddQuantizationConfig ==
    /\ n_adds < MaxAdds
    /\ \E regex \in ScopeRegexes, operation_name \in TFLOpNames,
          op_config \in {n_adds + 1}, algorithm_key \in AlgorithmKeys,
          override_algorithm \in BOOLEAN :
          LET r == add_quantization_config(scope_configs, regex, operation_name,
                       op_config, algorithm_key, override_algorithm)
          IN /\ scope_configs' = r.scope_configs
             /\ call' = [NoCall EXCEPT
                           !.name = "add_quantization_config",
                           !.regex = regex, !.operation = operation_name,
                           !.algorithm_key = algorithm_key,
                           !.op_config = op_config,
                           !.override_algorithm = override_algorithm,
                           !.before = scope_recipes(scope_configs, regex),
                           !.raised = r.raised]
    /\ n_adds' = n_adds + 1
    /\ loaded' = <<>>
    /\ UNCHANGED graph_vars
    /\ UNCHANGED materialize_vars
    /\ UNCHANGED codec_vars

GetQuantizationConfigs ==
    /\ \E target_op_name \in TFLOpNames \ {ALL}, scope_name \in ScopeNames :
          call' = [NoCall EXCEPT
                     !.name = "get_quantization_configs",
                     !.operation = target_op_name,
                     !.scope_name = scope_name,
                     !.result = get_quantization_configs(
                                    scope_configs, target_op_name, scope_name)]
    /\ UNCHANGED <<scope_configs, n_adds, loaded>>
    /\ UNCHANGED graph_vars
    /\ UNCHANGED materialize_vars
    /\ UNCHANGED codec_vars

\* The recipes a run loads: up to the add_quantization_config calls the run
\* has left, the record of the k-th call of the run carrying config k and
\* every record the default override flag.
QuantizationRecipes(first_config, length) ==
    { [i \in 1..length |->
          [regex |-> rules[i][1], operation |-> rules[i][2], algorithm_key |-> rules[i][3],
           op_config |-> to_dict(first_config + i - 1), override_algorithm |-> TRUE]] :
      rules \in [1..length -> ScopeRegexes \X TFLOpNames \X AlgorithmKeys] }

LoadQuantizationRecipe ==
    /\ \E length \in 0..(MaxAdds - n_adds) :
          \E quantization_recipe \in QuantizationRecipes(n_adds + 1, length) :
             LET r == load_quantization_recipe(scope_configs, quantization_recipe)
             IN /\ scope_configs' = r.scope_configs
                /\ n_adds' = n_adds + r.n_calls
                /\ call' = [NoCall EXCEPT
                              !.name = "load_quantization_recipe",
                              !.recipe = quantization_recipe,
                              !.raised = r.raised]
                /\ loaded' = IF r.raised THEN <<>> ELSE <<quantization_recipe>>
    /\ UNCHANGED graph_vars
    /\ UNCHANGED materialize_vars
    /\ UNCHANGED codec_vars

GetQuantizationRecipe ==
    /\ call' = [NoCall EXCEPT
                  !.name = "get_quantization_recipe",
                  !.recipe = get_quantization_recipe(scope_configs)]
    /\ UNCHANGED <<scope_configs, n_adds, loaded>>
    /\ UNCHANGED graph_vars
    /\ UNCHANGED materialize_vars
    /\ UNCHANGED codec_vars

NextRecipe == AddQuantizationConfig \/ GetQuantizationConfigs \/ LoadQuantizationRecipe \/ GetQuantizationRecipe

RecipeSpec == InitRecipe /\ [][NextRecipe]_vars

(***************************************************************************)
(* Properties of the recipe manager                                        *)
(***************************************************************************)
\* The rules a query visits: those of the scopes whose regex is found in the
\* scope name, scopes in insertion order and rules in list order, without
\* the rules for another operation.
RECURSIVE rules_in_scopes(_, _)
rules_in_scopes(configs, scope_name) ==
    IF configs = <<>> THEN <<>>
    ELSE (IF re_search(Head(configs).regex, scope_name)
          THEN Head(configs).recipes ELSE <<>>)
         \o rules_in_scopes(Tail(configs), scope_name)

visited_rules(configs, target_op_name, scope_name) ==
    LET applies(r) == r.operation = ALL \/ r.operation = target_op_name
    IN SelectSeq(rules_in_scopes(configs, scope_name), applies)

\* The running algorithm after the first i visited rules, and whether the
\* i-th visited rule is accepted.
RECURSIVE running_key(_, _)
RECURSIVE rule_accepted(_, _)
running_key(v, i) ==
    IF i = 0 THEN NO_QUANT
    ELSE IF rule_accepted(v, i) THEN v[i].algorithm_key
    ELSE running_key(v, i - 1)

rule_accepted(v, i) ==
    v[i].algorithm_key = running_key(v, i - 1) \/ v[i].override_algorithm

\* The pair of the last accepted rule, the sentinel when none is accepted.
last_accepted_pair(v) ==
    LET accepted == {i \in 1..Len(v) : rule_accepted(v, i)}
    IN IF accepted = {} THEN [key |-> NO_QUANT, config |-> DefaultOpConfig]
       ELSE LET last == CHOOSE i \in accepted : \A j \in accepted : j <= i
            IN [key |-> v[last].algorithm_key, config |-> v[last].op_config]

IsGet == call.name = "get_quantization_configs"
IsAdd == call.name = "add_quantization_config"
CallRule == OpQuantizationRecipe(call.regex, call.operation, call.algorithm_key,
                                 call.op_config, call.override_algorithm)
QueryVisited == visited_rules(scope_configs, call.operation, call.scope_name)

\* C1: when a query visits two rules with different algorithm keys, the
\* second with override_algorithm = FALSE, the call returns the first rule's
\* algorithm key and op config.
C1_FirstRuleKeptWithoutOverride ==
    (/\ IsGet
     /\ Len(QueryVisited) = 2
     /\ QueryVisited[1].algorithm_key # QueryVisited[2].algorithm_key
     /\ ~QueryVisited[2].override_algorithm)
    => call.result = [key |-> QueryVisited[1].algorithm_key,
                      config |-> QueryVisited[1].op_config]

\* C2: after add_quantization_config(regex, ALL, ...) on a scope that held
\* one or more operator-specific rules, the scope's rule list is exactly the
\* new ALL rule.
C2_AllRuleResetsScope ==
    (/\ IsAdd
     /\ call.operation = ALL
     /\ \E i \in 1..Len(call.before) : call.before[i].operation # ALL)
    => scope_recipes(scope_configs, call.regex) = <<CallRule>>

\* An ALL rule was added to a scope that held two rules, one operator-specific.
C2_Witness ==
    /\ IsAdd
    /\ call.operation = ALL
    /\ Len(call.before) = 2
    /\ \E i \in 1..Len(call.before) : call.before[i].operation # ALL
    /\ ~call.raised

\* C3: get_quantization_configs returns the pair of the last accepted rule
\* among the visited rules, a rule being accepted iff its algorithm equals
\* the running algorithm or its override flag is set, and the sentinel
\* (NO_QUANT, default config) when no rule is accepted.
C3_ResultIsLastAcceptedRule ==
    IsGet => call.result = last_accepted_pair(QueryVisited)

\* A query that visited three rules of two scopes: one rejected, one accepted
\* with the same algorithm and no override flag, and a scope left out
\* although its regex matches part of the name only.
C3_Witness ==
    /\ IsGet
    /\ Len(QueryVisited) = 3
    /\ Len(scope_configs) = 2
    /\ \E i \in 1..3 : ~rule_accepted(QueryVisited, i)
    /\ \E i \in 1..3 : /\ rule_accepted(QueryVisited, i)
                       /\ ~QueryVisited[i].override_algorithm
                       /\ running_key(QueryVisited, i - 1) = PTQ
    /\ \E i \in 1..2 : /\ scope_configs[i].regex = <<"b">>
                       /\ call.scope_name = <<"a", "b">>

(***************************************************************************)
(* The flatbuffer graph and quantize_tensor                                *)
(*                                                                         *)
(* Python lists are sequences; a Python index i is position i + 1.         *)
(* A numpy array is [dtype, shape, data] with data in row-major order; a   *)
(* real number is a pair <<numerator, denominator>>.                       *)
(***************************************************************************)
\* an Optional value is a list: None, or the one value it holds
None == <<>>

Some(value) == <<value>>

ValueOf(option) == option[1]

\* schema_py_generated.TensorType, the members the engine names
TensorType == [FLOAT32 |-> "FLOAT32", INT8 |-> "INT8", INT16 |-> "INT16", INT32 |-> "INT32", INT64 |-> "INT64"]
ValueError == "ValueError"

\* qtyping.QuantTransformation, the members the engine and the materializer name
QuantTransformation == [QUANTIZE_TENSOR |-> "QUANTIZE_TENSOR", ADD_DEQUANTIZE |-> "ADD_DEQUANTIZE", ADD_QUANTIZE |-> "ADD_QUANTIZE", NO_QUANTIZE |-> "NO_QUANTIZE"]
DEQUANTIZE == "DEQUANTIZE"

\* list[index]
At(list, index) == list[index + 1]

\* list.insert(index, item)
ListInsert(list, index, item) == SubSeq(list, 1, index) \o <<item>> \o SubSeq(list, index + 1, Len(list))

\* item in list
Contains(list, item) == \E i \in 1..Len(list) : list[i] = item

TransformationInfo(op_id, num_ops_added, output_tensor_id) == [op_id |-> op_id, num_ops_added |-> num_ops_added, output_tensor_id |-> output_tensor_id]

quant_params_to_tflite_type_no_int16(bitwidth) ==
    IF bitwidth <= 8 THEN TensorType.INT8
    ELSE IF bitwidth = 16 THEN TensorType.INT8
    ELSE IF bitwidth = 32 THEN TensorType.INT32
    ELSE IF bitwidth = 64 THEN TensorType.INT64
    ELSE ValueError

quant_params_to_tflite_type(bitwidth) ==
    IF bitwidth <= 8 THEN TensorType.INT8
    ELSE IF bitwidth = 16 THEN TensorType.INT16
    ELSE IF bitwidth = 32 THEN TensorType.INT32
    ELSE IF bitwidth = 64 THEN TensorType.INT64
    ELSE ValueError

\* bytes one element of a numpy integer dtype occupies
itemsize(dtype) ==
    IF dtype = "int8" THEN 1
    ELSE IF dtype = "int16" THEN 2
    ELSE IF dtype = "int32" THEN 4
    ELSE 8

\* byte k (0 = lowest) of a non-negative number below 2^31
low_byte(value, k) ==
    IF k = 0 THEN value % 256
    ELSE IF k = 1 THEN (value \div 256) % 256
    ELSE IF k = 2 THEN (value \div 65536) % 256
    ELSE IF k = 3 THEN (value \div 16777216) % 256
    ELSE 0

\* byte k of the little-endian two's complement form of value
element_byte(value, k) == IF value >= 0 THEN low_byte(value, k) ELSE 255 - low_byte(-value - 1, k)

\* np.frombuffer(array.tobytes(), dtype=np.uint8).flatten()
tobytes(array) == [b \in 1..(Len(array.data) * itemsize(array.dtype)) |-> element_byte(array.data[((b - 1) \div itemsize(array.dtype)) + 1], (b - 1) % itemsize(array.dtype))]

\* list(array.flatten().astype(dtype)): the elements, each converted to dtype
flatten_astype(array, dtype) == [i \in 1..Len(array.data) |-> [dtype |-> dtype, value |-> array.data[i]]]

\* the QuantizationParametersT quantize_tensor builds; quantizedDimension
\* keeps the schema default 0 when the parameters carry none
flatbuffer_quantization(quant_params) ==
    [scale |-> flatten_astype(quant_params.scale, "float32"),
     zeroPoint |-> flatten_astype(quant_params.zero_point, "int32"),
     quantizedDimension |-> IF quant_params.quantized_dimension # None THEN ValueOf(quant_params.quantized_dimension) ELSE 0]

\* model.buffers after the buffer rewrite of quantize_tensor
quantize_buffer(graph_buffers, tensor, quant_params) ==
    IF tensor.buffer # 0 /\ quant_params.quantized_data # None
    THEN [graph_buffers EXCEPT ![tensor.buffer + 1].data = Some(tobytes(ValueOf(quant_params.quantized_data)))]
    ELSE graph_buffers

\* quantize_tensor: the buffers and tensors it leaves behind, whether it
\* raised, and the TransformationInfo it returned.  The quantization
\* metadata and the buffer are written before the type lookup can raise.
quantize_tensor(tensor_id, graph_buffers, graph_tensors, quant_params) ==
    LET tensor == At(graph_tensors, tensor_id)
        new_buffers == quantize_buffer(graph_buffers, tensor, quant_params)
        with_quantization == [graph_tensors EXCEPT ![tensor_id + 1].quantization = Some(flatbuffer_quantization(quant_params))]
        tflite_type == quant_params_to_tflite_type(quant_params.num_bits)
    IN  IF tflite_type = ValueError
        THEN [raised |-> TRUE, buffers |-> new_buffers, tensors |-> with_quantization, info |-> None]
        ELSE [raised |-> FALSE, buffers |-> new_buffers,
              tensors |-> [with_quantization EXCEPT ![tensor_id + 1].type = tflite_type],
              info |-> TransformationInfo(0, 0, tensor_id)]

(***************************************************************************)
(* insert_dequant, as dequant_insert_test.py exercises it                  *)
(***************************************************************************)
\* index of op_code in model.operatorCodes after it was added if missing
add_op_code(graph_op_codes, op_code) == IF Contains(graph_op_codes, op_code) THEN graph_op_codes ELSE Append(graph_op_codes, op_code)

op_code_index(graph_op_codes, op_code) == (CHOOSE i \in 1..Len(graph_op_codes) : graph_op_codes[i] = op_code) - 1

\* the lowest operator index in a non-empty list of consumers
first_consumer(consumers) == CHOOSE c \in {consumers[i] : i \in 1..Len(consumers)} : \A i \in 1..Len(consumers) : c <= consumers[i]

\* the operator with every input slot that reads tensor_id moved to new_tensor_id
rewire(op, tensor_id, new_tensor_id) == [op EXCEPT !.inputs = [i \in 1..Len(op.inputs) |-> IF op.inputs[i] = tensor_id THEN new_tensor_id ELSE op.inputs[i]]]

rewire_consumers_all(graph_operators, tensor_id, new_tensor_id, consumers) == [i \in 1..Len(graph_operators) |-> rewire(graph_operators[i], tensor_id, new_tensor_id)]

\* the operators with the selected consumers moved to the dequantized tensor
rewire_consumers(graph_operators, tensor_id, new_tensor_id, consumers) == [i \in 1..Len(graph_operators) |-> IF Contains(consumers, i - 1) THEN rewire(graph_operators[i], tensor_id, new_tensor_id) ELSE graph_operators[i]]

dequant_op_index_after_producer(producer, consumers) == producer + 1

\* where the dequantize operator goes: in front of the first selected consumer
dequant_op_index(producer, consumers) == first_consumer(consumers)

\* the float tensor the dequantize operator writes
dequant_tensor(tensor) == [name |-> tensor.name \o <<"_dequant">>, type |-> TensorType.FLOAT32, buffer |-> 0, quantization |-> None]

insert_dequant_reporting_consumer(tensor_id, graph_op_codes, graph_buffers, graph_tensors, graph_operators, producer, consumers, quant_params) ==
    LET new_op_codes == add_op_code(graph_op_codes, DEQUANTIZE)
        new_tensor_id == Len(graph_tensors)
        quantized == quantize_tensor(tensor_id, graph_buffers, graph_tensors, quant_params)
        dequant_op == [opcodeIndex |-> op_code_index(new_op_codes, DEQUANTIZE), inputs |-> <<tensor_id>>, outputs |-> <<new_tensor_id>>]
        op_id == dequant_op_index(producer, consumers)
    IN  [op_codes |-> new_op_codes,
         buffers |-> quantized.buffers,
         tensors |-> Append(quantized.tensors, dequant_tensor(At(graph_tensors, tensor_id))),
         operators |-> ListInsert(rewire_consumers(graph_operators, tensor_id, new_tensor_id, consumers), op_id, dequant_op),
         info |-> TransformationInfo(op_id + 1, 1, new_tensor_id)]

\* insert_dequant: a DEQUANTIZE op code, a new float tensor at the end of
\* the tensor list, the source tensor quantized, the selected consumers
\* rewired, and the dequantize operator inserted.
insert_dequant(tensor_id, graph_op_codes, graph_buffers, graph_tensors, graph_operators, producer, consumers, quant_params) ==
    LET new_op_codes == add_op_code(graph_op_codes, DEQUANTIZE)
        new_tensor_id == Len(graph_tensors)
        quantized == quantize_tensor(tensor_id, graph_buffers, graph_tensors, quant_params)
        dequant_op == [opcodeIndex |-> op_code_index(new_op_codes, DEQUANTIZE), inputs |-> <<tensor_id>>, outputs |-> <<new_tensor_id>>]
        op_id == dequant_op_index(producer, consumers)
    IN  [op_codes |-> new_op_codes,
         buffers |-> quantized.buffers,
         tensors |-> Append(quantized.tensors, dequant_tensor(At(graph_tensors, tensor_id))),
         operators |-> ListInsert(rewire_consumers(graph_operators, tensor_id, new_tensor_id, consumers), op_id, dequant_op),
         info |-> TransformationInfo(op_id, 1, new_tensor_id)]

(***************************************************************************)
(* The graph of dequant_insert_test.py and the parameters of its edits     *)
(***************************************************************************)
\* operator 0 makes tensor 1; operators 1 and 2 read tensor 1 and the
\* constants 2 and 3 and make tensors 4 and 5; operator 3 adds 4 and 5
\* into 6; operator 4 reads 6 and the constant 7 and makes tensor 8.
TestOpCodes == <<"CONV_2D", "ADD">>

TestOperators ==
    << [opcodeIndex |-> 0, inputs |-> <<0>>, outputs |-> <<1>>],
       [opcodeIndex |-> 0, inputs |-> <<1, 2, 3>>, outputs |-> <<4>>],
       [opcodeIndex |-> 0, inputs |-> <<1, 2, 3>>, outputs |-> <<5>>],
       [opcodeIndex |-> 1, inputs |-> <<4, 5>>, outputs |-> <<6>>],
       [opcodeIndex |-> 1, inputs |-> <<6, 7>>, outputs |-> <<8>>] >>

\* buffer 0 is the empty buffer; tensor 1 owns an empty buffer of its own
TestBuffers ==
    << [data |-> None],
       [data |-> Some(<<0, 0, 128, 63, 0, 0, 0, 64>>)],
       [data |-> Some(<<0, 0, 128, 63>>)],
       [data |-> Some(<<0, 0, 0, 64>>)],
       [data |-> None] >>

TestTensorBuffer == <<0, 4, 1, 2, 0, 0, 0, 3, 0>>

TestTensorNames == <<"t0", "t1", "t2", "t3", "t4", "t5", "t6", "t7", "t8">>

TestTensors == [i \in 1..9 |-> [name |-> <<TestTensorNames[i]>>, type |-> TensorType.FLOAT32, buffer |-> TestTensorBuffer[i], quantization |-> None]]

ndarray(dtype, shape, data) == [dtype |-> dtype, shape |-> shape, data |-> data]

UniformQuantParams(num_bits, quantized_dimension, scale, zero_point, symmetric, quantized_data) == [num_bits |-> num_bits, quantized_dimension |-> quantized_dimension, scale |-> scale, zero_point |-> zero_point, symmetric |-> symmetric, quantized_data |-> quantized_data]

\* UniformQuantParams(8, None, np.array([1]), np.array([0])) of the tests
TestQuantParams == UniformQuantParams(8, None, ndarray("float64", <<1>>, << <<1, 1>> >>), ndarray("int64", <<1>>, <<0>>), TRUE, None)

PerTensorParams(num_bits, quantized_data) == UniformQuantParams(num_bits, None, ndarray("float64", <<1>>, << <<1, 10>> >>), ndarray("int64", <<1>>, <<3>>), FALSE, quantized_data)

ChannelWiseInt4Params == UniformQuantParams(4, Some(0), ndarray("float64", <<2, 1>>, << <<1, 2>>, <<1, 10>> >>), ndarray("int64", <<2, 1>>, <<0, 0>>), TRUE, Some(ndarray("int8", <<2, 1>>, <<-3, 5>>)))

\* parameters of a QUANTIZE_TENSOR edit; 12 bits has no tflite type
QuantizeTensorParams ==
    { ChannelWiseInt4Params,
      PerTensorParams(16, Some(ndarray("int16", <<2>>, <<-300, 5>>))),
      PerTensorParams(32, Some(ndarray("int32", <<2>>, <<-70000, 5>>))),
      PerTensorParams(64, None),
      PerTensorParams(12, Some(ndarray("int16", <<2>>, <<-300, 5>>))) }

\* parameters of an ADD_DEQUANTIZE edit
InsertDequantParams == { TestQuantParams, PerTensorParams(16, Some(ndarray("int16", <<2>>, <<-300, 5>>))) }

\* index of the operator that writes tensor_id, -1 when none does
producer_of(graph_operators, tensor_id) ==
    IF \E i \in 1..Len(graph_operators) : Contains(graph_operators[i].outputs, tensor_id)
    THEN (CHOOSE i \in 1..Len(graph_operators) : Contains(graph_operators[i].outputs, tensor_id)) - 1
    ELSE -1

\* indices of the operators that read tensor_id
consumers_of(graph_operators, tensor_id) == {i - 1 : i \in {j \in 1..Len(graph_operators) : Contains(graph_operators[j].inputs, tensor_id)}}

\* a set of operator indices as an ascending list
ascending(indices) == CHOOSE list \in [1..Cardinality(indices) -> indices] : \A i, j \in 1..Cardinality(indices) : i < j => list[i] < list[j]

(***************************************************************************)
(* The edit plan and its application                                       *)
(***************************************************************************)
Edit(kind, tensor_id, producer, consumers, quant_params) == [kind |-> kind, tensor_id |-> tensor_id, producer |-> producer, consumers |-> consumers, quant_params |-> quant_params]

\* QUANTIZE_TENSOR edits name every consumer of their tensor
QuantizeTensorEdits == {Edit(QuantTransformation.QUANTIZE_TENSOR, t, producer_of(TestOperators, t), ascending(consumers_of(TestOperators, t)), q) : t \in 0..(Len(TestTensors) - 1), q \in QuantizeTensorParams}

\* ADD_DEQUANTIZE edits select some, at least one, of the consumers
InsertDequantSelections == {s \in [tensor_id : 0..(Len(TestTensors) - 1), consumers : SUBSET (0..(Len(TestOperators) - 1))] : s.consumers # {} /\ s.consumers \subseteq consumers_of(TestOperators, s.tensor_id)}

InsertDequantEdits == {Edit(QuantTransformation.ADD_DEQUANTIZE, s.tensor_id, producer_of(TestOperators, s.tensor_id), ascending(s.consumers), q) : s \in InsertDequantSelections, q \in InsertDequantParams}

Edits == QuantizeTensorEdits \cup InsertDequantEdits

\* a plan holds one edit for a tensor and a consumer: two edits of one
\* tensor serve different consumers
disjoint_edits(a, b) == a.tensor_id = b.tensor_id => (a.consumers # <<>> /\ b.consumers # <<>> /\ \A i \in 1..Len(a.consumers) : ~Contains(b.consumers, a.consumers[i]))

\* edit plans: in ascending order of the original producer index
Plans == {p \in UNION {[1..n -> Edits] : n \in 0..MaxEdits} : \A i, j \in 1..Len(p) : i < j => (p[i].producer <= p[j].producer /\ disjoint_edits(p[i], p[j]))}

RECURSIVE correct_index(_, _)
\* an original operator index after the insertions the applied edits reported
correct_index(op_index, applied) ==
    IF applied = <<>> THEN op_index
    ELSE correct_index(IF op_index >= applied[1].op_id THEN op_index + applied[1].num_ops_added ELSE op_index, Tail(applied))

correct_edit_unshifted(edit, applied) == edit

\* an edit of the plan with its operator indices corrected
correct_edit(edit, applied) == [edit EXCEPT !.producer = correct_index(edit.producer, applied), !.consumers = [i \in 1..Len(edit.consumers) |-> correct_index(edit.consumers[i], applied)]]

\* the call the orchestrator makes next
next_edit == correct_edit(plan[cursor + 1], infos)

InitGraph ==
    /\ RecipeIdle
    /\ MaterializeIdle
    /\ CodecIdle
    /\ op_codes = TestOpCodes
    /\ buffers = TestBuffers
    /\ tensors = TestTensors
    /\ operators = TestOperators
    /\ plan \in Plans
    /\ cursor = 0
    /\ infos = <<>>
    /\ aborted = FALSE

ApplyQuantizeTensor ==
    /\ ~aborted
    /\ cursor < Len(plan)
    /\ plan[cursor + 1].kind = QuantTransformation.QUANTIZE_TENSOR
    /\ LET r == quantize_tensor(next_edit.tensor_id, buffers, tensors, next_edit.quant_params)
       IN  /\ buffers' = r.buffers
           /\ tensors' = r.tensors
           /\ IF r.raised
              THEN aborted' = TRUE /\ UNCHANGED <<cursor, infos>>
              ELSE cursor' = cursor + 1 /\ infos' = Append(infos, r.info) /\ UNCHANGED aborted
    /\ UNCHANGED <<op_codes, operators, plan>>
    /\ UNCHANGED recipe_vars
    /\ UNCHANGED materialize_vars
    /\ UNCHANGED codec_vars

ApplyInsertDequant ==
    /\ ~aborted
    /\ cursor < Len(plan)
    /\ plan[cursor + 1].kind = QuantTransformation.ADD_DEQUANTIZE
    /\ LET r == insert_dequant(next_edit.tensor_id, op_codes, buffers, tensors, operators, next_edit.producer, next_edit.consumers, next_edit.quant_params)
       IN  /\ op_codes' = r.op_codes
           /\ buffers' = r.buffers
           /\ tensors' = r.tensors
           /\ operators' = r.operators
           /\ infos' = Append(infos, r.info)
    /\ cursor' = cursor + 1
    /\ UNCHANGED <<plan, aborted>>
    /\ UNCHANGED recipe_vars
    /\ UNCHANGED materialize_vars
    /\ UNCHANGED codec_vars

NextGraph == ApplyQuantizeTensor \/ ApplyInsertDequant

GraphSpec == InitGraph /\ [][NextGraph]_vars

(***************************************************************************)
(* Claims about the graph transformation engine                            *)
(***************************************************************************)
IntegerTypes == {TensorType.INT8, TensorType.INT16, TensorType.INT32, TensorType.INT64}

\* the call of the edit applied last, and the TransformationInfo it returned
last_edit == correct_edit(plan[cursor], SubSeq(infos, 1, cursor - 1))

last_info == infos[cursor]

Applied(kind) == cursor >= 1 /\ plan[cursor].kind = kind

\* the step applies the next edit of the plan, and that edit is of this kind
Applies(kind) == cursor < Len(plan) /\ cursor' = cursor + 1 /\ plan[cursor + 1].kind = kind

\* where the operator at op_index is once an operator was inserted at op_id
shifted(op_index, op_id) == IF op_index >= op_id THEN op_index + 1 ELSE op_index

\* the tflite type the claim assigns to a bit width
claimed_type(num_bits) == IF num_bits <= 8 THEN TensorType.INT8 ELSE IF num_bits = 16 THEN TensorType.INT16 ELSE IF num_bits = 32 THEN TensorType.INT32 ELSE TensorType.INT64

\* C7: an insert_dequant call that selects only some of the tensor's
\* consumers moves exactly the selected consumers to the new dequantized
\* tensor; every other operator, the unselected consumers among them, keeps
\* its inputs.
C7_OnlySelectedConsumersRewired ==
    [][ (Applies(QuantTransformation.ADD_DEQUANTIZE) /\ \E c \in consumers_of(operators, next_edit.tensor_id) : ~Contains(next_edit.consumers, c)) =>
          \A c \in 0..(Len(operators) - 1) :
              LET after == At(operators', shifted(c, infos'[cursor + 1].op_id))
              IN  /\ after.outputs = At(operators, c).outputs
                  /\ IF Contains(next_edit.consumers, c)
                     THEN /\ ~Contains(after.inputs, next_edit.tensor_id)
                          /\ Contains(after.inputs, Len(tensors))
                          /\ \A i \in 1..Len(after.inputs) : after.inputs[i] = Len(tensors) \/ after.inputs[i] = At(operators, c).inputs[i]
                     ELSE after.inputs = At(operators, c).inputs ]_vars

\* C7 witness: the last edit was an insert_dequant, a consumer it selected
\* reads the new tensor, and another operator than the dequantize still
\* reads the original tensor.
C7_Witness ==
    /\ Applied(QuantTransformation.ADD_DEQUANTIZE)
    /\ \E c \in consumers_of(operators, last_info.output_tensor_id) : TRUE
    /\ \E c \in consumers_of(operators, last_edit.tensor_id) : c # last_info.op_id

\* the dequantize operator of the last insert_dequant reads the original
\* tensor and writes the new tensor, which is a float tensor added at the
\* end of the tensor list, and the original tensor has an integer type
dequant_op_inserted ==
    /\ last_info.num_ops_added = 1
    /\ last_info.output_tensor_id = Len(tensors) - 1
    /\ At(operators, last_info.op_id).inputs = <<last_edit.tensor_id>>
    /\ At(operators, last_info.op_id).outputs = <<last_info.output_tensor_id>>
    /\ At(op_codes, At(operators, last_info.op_id).opcodeIndex) = DEQUANTIZE
    /\ At(tensors, last_info.output_tensor_id).type = TensorType.FLOAT32
    /\ At(tensors, last_edit.tensor_id).type \in IntegerTypes

\* C10 as stated: insert_dequant puts the dequantize operator directly
\* after the tensor's producer, at index producer + 1 (for a constant
\* tensor, producer -1, it stands alone with no producer); its output is
\* a new float tensor and the original tensor becomes integer-typed.
C10_DequantRightAfterProducer ==
    Applied(QuantTransformation.ADD_DEQUANTIZE) =>
        /\ dequant_op_inserted
        /\ last_edit.producer >= 0 => last_info.op_id = last_edit.producer + 1
        /\ last_edit.producer = -1 => producer_of(operators, last_edit.tensor_id) = -1

\* C10 amended: insert_dequant puts the dequantize operator directly in
\* front of the first selected consumer: after the tensor's producer (for
\* a constant tensor there is none), and directly after it only when that
\* consumer directly follows the producer.  Its output is a new float
\* tensor and the original tensor becomes integer-typed.
C10_DequantBeforeFirstConsumer ==
    Applied(QuantTransformation.ADD_DEQUANTIZE) =>
        /\ dequant_op_inserted
        /\ last_edit.producer < last_info.op_id
        /\ producer_of(operators, last_edit.tensor_id) = last_edit.producer
        /\ last_info.op_id = first_consumer(last_edit.consumers)
        /\ Contains(At(operators, last_info.op_id + 1).inputs, last_info.output_tensor_id)
        /\ \A c \in consumers_of(operators, last_info.output_tensor_id) : c > last_info.op_id

\* C10 witness: the dequantize operator of an activation tensor was
\* inserted in front of its consumer, with an operator between it and the
\* producer.
C10_Witness ==
    /\ Applied(QuantTransformation.ADD_DEQUANTIZE)
    /\ last_edit.producer >= 0
    /\ last_info.op_id > last_edit.producer + 1
    /\ At(operators, last_info.op_id).inputs = <<last_edit.tensor_id>>

\* C9: a quantize_tensor call with a bit width that has a tflite type
\* rewrites the tensor's buffer to the bytes of the quantized data (when
\* the parameters carry quantized data and the tensor has a buffer), sets
\* the tensor's type from the bit width (up to 8: INT8, 16: INT16, 32:
\* INT32, 64: INT64), writes scale, zero point and quantized dimension into
\* the tensor's quantization metadata, adds no operator and no tensor and
\* touches no other tensor or buffer, and returns num_ops_added = 0 and
\* output_tensor_id = tensor_id.
C9_QuantizeTensorInPlace ==
    [][ Applies(QuantTransformation.QUANTIZE_TENSOR) =>
          LET tensor_id == next_edit.tensor_id
              quant_params == next_edit.quant_params
              before == At(tensors, tensor_id)
              after == At(tensors', tensor_id)
          IN  /\ after.type = claimed_type(quant_params.num_bits)
              /\ after.quantization # None
              /\ Len(ValueOf(after.quantization).scale) = Len(quant_params.scale.data)
              /\ \A i \in 1..Len(quant_params.scale.data) : ValueOf(after.quantization).scale[i] = [dtype |-> "float32", value |-> quant_params.scale.data[i]]
              /\ Len(ValueOf(after.quantization).zeroPoint) = Len(quant_params.zero_point.data)
              /\ \A i \in 1..Len(quant_params.zero_point.data) : ValueOf(after.quantization).zeroPoint[i] = [dtype |-> "int32", value |-> quant_params.zero_point.data[i]]
              /\ quant_params.quantized_dimension # None => ValueOf(after.quantization).quantizedDimension = ValueOf(quant_params.quantized_dimension)
              /\ (before.buffer # 0 /\ quant_params.quantized_data # None) =>
                     /\ At(buffers', before.buffer).data # None
                     /\ Len(ValueOf(At(buffers', before.buffer).data)) = Len(ValueOf(quant_params.quantized_data).data) * itemsize(ValueOf(quant_params.quantized_data).dtype)
                     /\ ValueOf(At(buffers', before.buffer).data) = tobytes(ValueOf(quant_params.quantized_data))
              /\ after.name = before.name /\ after.buffer = before.buffer
              /\ Len(tensors') = Len(tensors)
              /\ \A t \in 0..(Len(tensors) - 1) : t # tensor_id => At(tensors', t) = At(tensors, t)
              /\ Len(buffers') = Len(buffers)
              /\ \A b \in 0..(Len(buffers) - 1) : b # before.buffer => At(buffers', b) = At(buffers, b)
              /\ operators' = operators
              /\ op_codes' = op_codes
              /\ infos'[cursor + 1].num_ops_added = 0
              /\ infos'[cursor + 1].output_tensor_id = tensor_id ]_vars

\* C9 witness: the constant tensor 2 was quantized to 16 bits with the data
\* [-300, 5]: it is an INT16 tensor with metadata, its buffer holds the
\* four little-endian bytes, and the graph has its five operators.
C9_Witness ==
    /\ Applied(QuantTransformation.QUANTIZE_TENSOR)
    /\ last_edit.tensor_id = 2
    /\ last_edit.quant_params.num_bits = 16
    /\ At(tensors, 2).type = TensorType.INT16
    /\ At(tensors, 2).quantization # None
    /\ At(buffers, At(tensors, 2).buffer).data = Some(<<212, 254, 5, 0>>)
    /\ Len(operators) = 5
    /\ last_info.num_ops_added = 0
    /\ last_info.output_tensor_id = 2

\* the operators a planned edit names, by the tensors they write
designated(graph_operators, edit) == [i \in 1..Len(edit.consumers) |-> At(graph_operators, edit.consumers[i]).outputs]

\* C8: while the orchestrator applies an edit plan in ascending order of
\* the original producer index, correcting the indices of the edits still
\* to come with the TransformationInfo of every applied edit, the graph
\* stays index-consistent: every operator input and output is an existing
\* tensor, every edit still to come designates the tensor and the
\* operators it was planned for, and every tensor's producer precedes all
\* its consumers.
C8_PlanKeepsGraphConsistent ==
    /\ \A i \in 1..Len(operators) :
           /\ \A k \in 1..Len(operators[i].inputs) : operators[i].inputs[k] \in -1..(Len(tensors) - 1)
           /\ \A k \in 1..Len(operators[i].outputs) : operators[i].outputs[k] \in 0..(Len(tensors) - 1)
    /\ \A k \in (cursor + 1)..Len(plan) :
           LET edit == correct_edit(plan[k], infos)
           IN  /\ At(tensors, edit.tensor_id).name = At(TestTensors, plan[k].tensor_id).name
               /\ edit.producer = producer_of(operators, edit.tensor_id)
               /\ \A i \in 1..Len(edit.consumers) : edit.consumers[i] \in consumers_of(operators, edit.tensor_id)
               /\ designated(operators, edit) = designated(TestOperators, plan[k])
    /\ \A t \in 0..(Len(tensors) - 1) : \A c \in consumers_of(operators, t) : producer_of(operators, t) < c

\* C8 witness: a plan of two insert_dequant edits was applied, and the
\* second was called with operator indices displaced by the first.
C8_Witness ==
    /\ cursor = 2
    /\ cursor = Len(plan)
    /\ plan[1].kind = QuantTransformation.ADD_DEQUANTIZE
    /\ plan[2].kind = QuantTransformation.ADD_DEQUANTIZE
    /\ last_edit.consumers # plan[2].consumers
    /\ last_edit.producer # plan[2].producer
    /\ Len(operators) = Len(TestOperators) + 2

\* C11: every insert_dequant call adds exactly one operator and exactly
\* one tensor, the new tensor at the end of the tensor list; the returned
\* TransformationInfo has num_ops_added = 1 and its op_id is the index,
\* after the insertion, of the dequantize operator, which reads only the
\* original tensor and writes only the new tensor; every rewired consumer
\* stands at a higher index than that.
C11_OneOperatorOneTensorAdded ==
    [][ Applies(QuantTransformation.ADD_DEQUANTIZE) =>
          LET info == infos'[cursor + 1]
          IN  /\ Len(operators') = Len(operators) + 1
              /\ Len(tensors') = Len(tensors) + 1
              /\ \A i \in 1..Len(tensors) : tensors'[i].name = tensors[i].name
              /\ info.num_ops_added = 1
              /\ info.output_tensor_id = Len(tensors)
              /\ info.op_id \in 0..Len(operators)
              /\ At(operators', info.op_id).inputs = <<next_edit.tensor_id>>
              /\ At(operators', info.op_id).outputs = <<Len(tensors)>>
              /\ At(op_codes', At(operators', info.op_id).opcodeIndex) = DEQUANTIZE
              /\ \A c \in 0..(Len(operators) - 1) : At(operators', shifted(c, info.op_id)).outputs = At(operators, c).outputs
              /\ \A c \in 0..Len(operators) : Contains(At(operators', c).inputs, Len(tensors)) => c > info.op_id
              /\ \A i \in 1..Len(next_edit.consumers) : /\ shifted(next_edit.consumers[i], info.op_id) > info.op_id
                                                        /\ Contains(At(operators', shifted(next_edit.consumers[i], info.op_id)).inputs, Len(tensors)) ]_vars

\* C11 witness: the second insert_dequant of a plan was applied: the graph
\* has two operators and two tensors more than at the start, and the
\* dequantize operator the last call reports feeds a consumer behind it.
C11_Witness ==
    /\ cursor = 2
    /\ Applied(QuantTransformation.ADD_DEQUANTIZE)
    /\ plan[1].kind = QuantTransformation.ADD_DEQUANTIZE
    /\ Len(operators) = Len(TestOperators) + 2
    /\ Len(tensors) = Len(TestTensors) + 2
    /\ last_info.num_ops_added = 1
    /\ At(operators, last_info.op_id).outputs = <<Len(tensors) - 1>>
    /\ \E c \in consumers_of(operators, last_info.output_tensor_id) : c > last_info.op_id

(***************************************************************************)
(* The numeric codec (uniform_quantize_tensor)                             *)
(*                                                                         *)
(* A real number is a fraction <<numerator, denominator>> in lowest terms  *)
(* with a positive denominator; the model keeps every ratio exact.         *)
(***************************************************************************)
\* the outcome of a call that can raise
Returned(value) == [error |-> "", value |-> value]

Raised(error) == [error |-> error, value |-> None]

RECURSIVE gcd(_, _)
gcd(a, b) == IF b = 0 THEN a ELSE gcd(b, a % b)

abs(x) == IF x < 0 THEN -x ELSE x

\* the fraction n / d, d # 0, in lowest terms
fraction(n, d) == LET g == gcd(abs(n), abs(d)) IN IF d < 0 THEN <<(-n) \div g, (-d) \div g>> ELSE <<n \div g, d \div g>>

\* np.rint(n / d) for d > 0: halves go to the even neighbour
rint(n, d) ==
    LET q == n \div d
        r == n - q * d
    IN  IF 2 * r < d THEN q
        ELSE IF 2 * r > d THEN q + 1
        ELSE IF q % 2 = 0 THEN q ELSE q + 1

RECURSIVE pow2(_)
\* 2 ** exponent
pow2(exponent) == IF exponent = 0 THEN 1 ELSE 2 * pow2(exponent - 1)

\* an integer type: its bit width and whether it is signed
IntType(num_bits, signed) == [num_bits |-> num_bits, signed |-> signed]

\* (qmin, qmax) of an integer type: -2^(bits-1) .. 2^(bits-1) - 1 signed,
\* 0 .. 2^bits - 1 unsigned
get_quantized_range(qtype) ==
    IF qtype.signed THEN <<-pow2(qtype.num_bits - 1), pow2(qtype.num_bits - 1) - 1>>
    ELSE <<0, pow2(qtype.num_bits) - 1>>

\* np.clip to the range of the type, which a narrow range (the symmetric
\* encoding) enters one code above qmin; the 32- and 64-bit ranges are
\* beyond every value the model computes
clip(value, qtype, narrow_range) ==
    LET qmin == get_quantized_range(qtype)[1] + (IF narrow_range THEN 1 ELSE 0)
        qmax == get_quantized_range(qtype)[2]
    IN  IF qtype.num_bits >= 32 THEN value
        ELSE IF value < qmin THEN qmin
        ELSE IF value > qmax THEN qmax
        ELSE value

\* scale of one min/max pair, the codes those of the signed type of the
\* bit width: symmetric max(|min|, |max|) / qmax, else the range extended
\* to hold zero over qmax - qmin
scale_from_min_max(min_value, max_value, num_bits, symmetric) ==
    IF symmetric
    THEN fraction(IF abs(min_value) > abs(max_value) THEN abs(min_value) ELSE abs(max_value), get_quantized_range(IntType(num_bits, TRUE))[2])
    ELSE fraction((IF max_value > 0 THEN max_value ELSE 0) - (IF min_value < 0 THEN min_value ELSE 0), get_quantized_range(IntType(num_bits, TRUE))[2] - get_quantized_range(IntType(num_bits, TRUE))[1])

zp_from_min_max_of_given_range(min_value, max_value, num_bits, symmetric) ==
    IF symmetric THEN 0
    ELSE LET scale == scale_from_min_max(min_value, max_value, num_bits, FALSE)
         IN  rint(get_quantized_range(IntType(num_bits, TRUE))[1] * scale[1] - min_value * scale[2], scale[1])

\* zero point of one min/max pair: 0 when symmetric, else
\* round(qmin - min' / scale) clamped to the range
zp_from_min_max(min_value, max_value, num_bits, symmetric) ==
    IF symmetric THEN 0
    ELSE LET scale == scale_from_min_max(min_value, max_value, num_bits, FALSE)
             bounded_min == IF min_value < 0 THEN min_value ELSE 0
         IN  clip(rint(get_quantized_range(IntType(num_bits, TRUE))[1] * scale[1] - bounded_min * scale[2], scale[1]), IntType(num_bits, TRUE), FALSE)

\* tensor_zp_scale_from_min_max, element by element of the min and max arrays
tensor_zp_scale_from_min_max(min_value, max_value, num_bits, symmetric) ==
    [zp |-> ndarray("int32", min_value.shape, [i \in 1..Len(min_value.data) |-> zp_from_min_max(min_value.data[i], max_value.data[i], num_bits, symmetric)]),
     scale |-> ndarray("float32", min_value.shape, [i \in 1..Len(min_value.data) |-> scale_from_min_max(min_value.data[i], max_value.data[i], num_bits, symmetric)])]

\* assign_quantized_type: the tensor cast to the numpy type that holds the
\* integer type, int8 .. int64 signed and uint8 .. uint64 unsigned; the
\* cast wraps a value outside the type around (the 32- and 64-bit types
\* hold every value the model computes)
assign_quantized_type(tensor, qtype) ==
    LET width == IF qtype.num_bits <= 8 THEN 8 ELSE IF qtype.num_bits <= 16 THEN 16 ELSE IF qtype.num_bits <= 32 THEN 32 ELSE 64
        dtype == IF qtype.signed
                 THEN (IF width = 8 THEN "int8" ELSE IF width = 16 THEN "int16" ELSE IF width = 32 THEN "int32" ELSE "int64")
                 ELSE (IF width = 8 THEN "uint8" ELSE IF width = 16 THEN "uint16" ELSE IF width = 32 THEN "uint32" ELSE "uint64")
        astype(value) == IF width >= 32 THEN value
                         ELSE IF qtype.signed THEN ((value + pow2(width - 1)) % pow2(width)) - pow2(width - 1)
                         ELSE value % pow2(width)
    IN  ndarray(dtype, tensor.shape, [i \in 1..Len(tensor.data) |-> astype(tensor.data[i])])

RECURSIVE channel_of(_, _, _)
\* which entry of an array of shape scale_shape an element of a tensor
\* takes when the array is broadcast against the tensor: the shapes are
\* aligned at their last dimension, and a dimension of size 1 is repeated
channel_of(shape, scale_shape, element) ==
    IF scale_shape = <<>> \/ shape = <<>> THEN 1
    ELSE (channel_of(SubSeq(shape, 1, Len(shape) - 1), SubSeq(scale_shape, 1, Len(scale_shape) - 1), ((element - 1) \div shape[Len(shape)]) + 1) - 1) * scale_shape[Len(scale_shape)]
         + (IF scale_shape[Len(scale_shape)] = 1 THEN 0 ELSE (element - 1) % shape[Len(shape)]) + 1

RECURSIVE size(_)
\* the number of elements of an array of a shape
size(shape) == IF shape = <<>> THEN 1 ELSE shape[1] * size(Tail(shape))

\* what uniform_quantize and uniform_dequantize refuse with a ValueError:
\* scale and zero point of different shapes, a rank of theirs that is not
\* the tensor's, and (raised by numpy) shapes that do not broadcast
is_valid_quantization_params(tensor_data, quantization_params) ==
    /\ quantization_params.scale.shape = quantization_params.zero_point.shape
    /\ Len(quantization_params.scale.shape) = Len(tensor_data.shape)
    /\ \A dim \in 1..Len(tensor_data.shape) :
           quantization_params.scale.shape[dim] = tensor_data.shape[dim] \/ quantization_params.scale.shape[dim] = 1 \/ tensor_data.shape[dim] = 1

\* uniform_quantize: round(value / scale) + zero point, clipped to the
\* signed type of the bit width (narrow when symmetric) and cast to it;
\* tensor, scale and zero point are broadcast against each other
uniform_quantize(tensor_data, quantization_params) ==
    LET shape == [dim \in 1..Len(tensor_data.shape) |-> IF tensor_data.shape[dim] = 1 THEN quantization_params.scale.shape[dim] ELSE tensor_data.shape[dim]]
        qtype == IntType(quantization_params.num_bits, TRUE)
        quantized(value, scale, zero_point) == clip(rint(value * scale[2], scale[1]) + zero_point, qtype, quantization_params.symmetric)
        of_element(element, channel) == quantized(tensor_data.data[element], quantization_params.scale.data[channel], quantization_params.zero_point.data[channel])
    IN  IF ~is_valid_quantization_params(tensor_data, quantization_params) THEN Raised("ValueError")
        ELSE Returned(assign_quantized_type(ndarray("float32", shape, [i \in 1..size(shape) |-> of_element(channel_of(shape, tensor_data.shape, i), channel_of(shape, quantization_params.scale.shape, i))]), qtype))

symmetric_quantize_bias_tensor_always_32_bits(bias_content, input_tensor_quant_params, weight_tensor_quant_params) ==
    LET num_channels == Len(weight_tensor_quant_params.scale.data)
        input_scale == input_tensor_quant_params.scale.data[1]
        effective_output_scale == ndarray("float32", <<num_channels>>, [i \in 1..num_channels |-> fraction(input_scale[1] * weight_tensor_quant_params.scale.data[i][1], input_scale[2] * weight_tensor_quant_params.scale.data[i][2])])
        bias_quant_params == UniformQuantParams(32, IF num_channels = 1 THEN None ELSE Some(0), effective_output_scale, ndarray("int32", <<num_channels>>, [i \in 1..num_channels |-> 0]), TRUE, None)
        with_quantized_data(quantized_vars) == IF quantized_vars.error # "" THEN quantized_vars ELSE Returned([bias_quant_params EXCEPT !.quantized_data = Some(quantized_vars.value)])
    IN  with_quantized_data(uniform_quantize(bias_content, bias_quant_params))

\* symmetric_quantize_bias_tensor: scale input scale * weight scale per
\* channel, zero point 0, 32 bits for 8-bit activations and 64 otherwise;
\* an error of uniform_quantize on the bias is the call's
symmetric_quantize_bias_tensor(bias_content, input_tensor_quant_params, weight_tensor_quant_params) ==
    LET num_channels == Len(weight_tensor_quant_params.scale.data)
        input_scale == input_tensor_quant_params.scale.data[1]
        effective_output_scale == ndarray("float32", <<num_channels>>, [i \in 1..num_channels |-> fraction(input_scale[1] * weight_tensor_quant_params.scale.data[i][1], input_scale[2] * weight_tensor_quant_params.scale.data[i][2])])
        bias_quant_params == UniformQuantParams(IF input_tensor_quant_params.num_bits = 8 THEN 32 ELSE 64, IF num_channels = 1 THEN None ELSE Some(0), effective_output_scale, ndarray("int32", <<num_channels>>, [i \in 1..num_channels |-> 0]), TRUE, None)
        with_quantized_data(quantized_vars) == IF quantized_vars.error # "" THEN quantized_vars ELSE Returned([bias_quant_params EXCEPT !.quantized_data = Some(quantized_vars.value)])
    IN  with_quantized_data(uniform_quantize(bias_content, bias_quant_params))

uniform_dequantize_keeping_zero_point(quantized_tensor, quantization_params) ==
    LET shape == [dim \in 1..Len(quantized_tensor.shape) |-> IF quantized_tensor.shape[dim] = 1 THEN quantization_params.scale.shape[dim] ELSE quantized_tensor.shape[dim]]
        dequantized(value, scale, zero_point) == fraction(value * scale[1], scale[2])
        of_element(element, channel) == dequantized(quantized_tensor.data[element], quantization_params.scale.data[channel], quantization_params.zero_point.data[channel])
    IN  IF ~is_valid_quantization_params(quantized_tensor, quantization_params) THEN Raised("ValueError")
        ELSE Returned(ndarray("float32", shape, [i \in 1..size(shape) |-> of_element(channel_of(shape, quantized_tensor.shape, i), channel_of(shape, quantization_params.scale.shape, i))]))

\* uniform_dequantize: (value - zero point) * scale, after the checks of
\* uniform_quantize
uniform_dequantize(quantized_tensor, quantization_params) ==
    LET shape == [dim \in 1..Len(quantized_tensor.shape) |-> IF quantized_tensor.shape[dim] = 1 THEN quantization_params.scale.shape[dim] ELSE quantized_tensor.shape[dim]]
        dequantized(value, scale, zero_point) == fraction((value - zero_point) * scale[1], scale[2])
        of_element(element, channel) == dequantized(quantized_tensor.data[element], quantization_params.scale.data[channel], quantization_params.zero_point.data[channel])
    IN  IF ~is_valid_quantization_params(quantized_tensor, quantization_params) THEN Raised("ValueError")
        ELSE Returned(ndarray("float32", shape, [i \in 1..size(shape) |-> of_element(channel_of(shape, quantized_tensor.shape, i), channel_of(shape, quantization_params.scale.shape, i))]))

update_tensor_qsv_moving_average_of_min_only(old_qsv, new_qsv, smoothing_factor) ==
    [min |-> fraction(old_qsv.min[1] * smoothing_factor[1] * new_qsv.min[2] + new_qsv.min[1] * (smoothing_factor[2] - smoothing_factor[1]) * old_qsv.min[2], old_qsv.min[2] * smoothing_factor[2] * new_qsv.min[2]),
     max |-> new_qsv.max]

\* update_tensor_qsv_moving_average: old * factor + new * (1 - factor),
\* for the minimum and for the maximum
update_tensor_qsv_moving_average(old_qsv, new_qsv, smoothing_factor) ==
    [min |-> fraction(old_qsv.min[1] * smoothing_factor[1] * new_qsv.min[2] + new_qsv.min[1] * (smoothing_factor[2] - smoothing_factor[1]) * old_qsv.min[2], old_qsv.min[2] * smoothing_factor[2] * new_qsv.min[2]),
     max |-> fraction(old_qsv.max[1] * smoothing_factor[1] * new_qsv.max[2] + new_qsv.max[1] * (smoothing_factor[2] - smoothing_factor[1]) * old_qsv.max[2], old_qsv.max[2] * smoothing_factor[2] * new_qsv.max[2])]

\* what min_max_calibrate collects for an activation tensor: np.min and
\* np.max of the batch over all axes
min_max_calibrate(tensor_content) ==
    [min |-> fraction(CHOOSE x \in {tensor_content[i] : i \in 1..Len(tensor_content)} : \A y \in {tensor_content[i] : i \in 1..Len(tensor_content)} : x <= y, 1),
     max |-> fraction(CHOOSE x \in {tensor_content[i] : i \in 1..Len(tensor_content)} : \A y \in {tensor_content[i] : i \in 1..Len(tensor_content)} : x >= y, 1)]

(***************************************************************************)
(* Running the codec: a range becomes scale and zero point, a tensor is    *)
(* quantized with them and dequantized again; the statistics of a tensor   *)
(* follow the calibration batches                                          *)
(***************************************************************************)
\* the shapes a caller gives the one scale and the one zero point of a
\* per-tensor encoding: flat as the flatbuffer holds them, or of rank 2
ParamShapes == { <<1>>, <<1, 1>> }

\* the parameters with scale and zero point reshaped
reshaped(quantization_params, scale_shape, zero_point_shape) == [quantization_params EXCEPT !.scale.shape = scale_shape, !.zero_point.shape = zero_point_shape]

\* a range with min <= max of which one end is not zero, a bit width, an
\* encoding, and a tensor holding both ends of the range and one more
\* value of it; or a calibration run, on which no range is given
InitCodec ==
    /\ RecipeIdle
    /\ GraphIdle
    /\ MaterializeIdle
    /\ tensor_qsv = None
    /\ calibrate_calls = <<>>
    /\ \/ quant_call = None
       \/ \E min_value \in -4..4, max_value \in -4..4, num_bits \in {4, 8}, symmetric \in BOOLEAN, value \in -4..4 :
              /\ min_value <= value
              /\ value <= max_value
              /\ min_value # 0 \/ max_value # 0
              /\ quant_call = Some([name |-> "", min_value |-> min_value, max_value |-> max_value, num_bits |-> num_bits, symmetric |-> symmetric,
                                     tensor_data |-> ndarray("float32", <<3>>, <<min_value, value, max_value>>), quant_params |-> None, quantized |-> None, dequantized |-> None])

TensorZpScaleFromMinMax ==
    /\ quant_call # None
    /\ ValueOf(quant_call).name = ""
    /\ LET with_zp_scale(zp_scale) ==
               quant_call' = Some([ValueOf(quant_call) EXCEPT !.name = "tensor_zp_scale_from_min_max",
                                       !.quant_params = Some(UniformQuantParams(ValueOf(quant_call).num_bits, None, zp_scale.scale, zp_scale.zp, ValueOf(quant_call).symmetric, None))])
       IN  with_zp_scale(tensor_zp_scale_from_min_max(ndarray("float32", <<1>>, <<ValueOf(quant_call).min_value>>), ndarray("float32", <<1>>, <<ValueOf(quant_call).max_value>>), ValueOf(quant_call).num_bits, ValueOf(quant_call).symmetric))
    /\ UNCHANGED <<tensor_qsv, calibrate_calls>>
    /\ UNCHANGED recipe_vars
    /\ UNCHANGED graph_vars
    /\ UNCHANGED materialize_vars

\* uniform_quantize on the tensor with the parameters of the range, their
\* scale and zero point in the shapes the caller gives them
UniformQuantize ==
    /\ quant_call # None
    /\ ValueOf(quant_call).name = "tensor_zp_scale_from_min_max"
    /\ \E scale_shape \in ParamShapes, zero_point_shape \in ParamShapes :
           LET called_with(quantization_params) ==
                   quant_call' = Some([ValueOf(quant_call) EXCEPT !.name = "uniform_quantize",
                                           !.quant_params = Some(quantization_params),
                                           !.quantized = Some(uniform_quantize(ValueOf(quant_call).tensor_data, quantization_params))])
           IN  called_with(reshaped(ValueOf(ValueOf(quant_call).quant_params), scale_shape, zero_point_shape))
    /\ UNCHANGED <<tensor_qsv, calibrate_calls>>
    /\ UNCHANGED recipe_vars
    /\ UNCHANGED graph_vars
    /\ UNCHANGED materialize_vars

\* uniform_dequantize on the tensor uniform_quantize returned, again with
\* scale and zero point in the shapes the caller gives them
UniformDequantize ==
    /\ quant_call # None
    /\ ValueOf(quant_call).name = "uniform_quantize"
    /\ ValueOf(ValueOf(quant_call).quantized).error = ""
    /\ \E scale_shape \in ParamShapes, zero_point_shape \in ParamShapes :
           LET called_with(quantization_params) ==
                   quant_call' = Some([ValueOf(quant_call) EXCEPT !.name = "uniform_dequantize",
                                           !.quant_params = Some(quantization_params),
                                           !.dequantized = Some(uniform_dequantize(ValueOf(ValueOf(quant_call).quantized).value, quantization_params))])
           IN  called_with(reshaped(ValueOf(ValueOf(quant_call).quant_params), scale_shape, zero_point_shape))
    /\ UNCHANGED <<tensor_qsv, calibrate_calls>>
    /\ UNCHANGED recipe_vars
    /\ UNCHANGED graph_vars
    /\ UNCHANGED materialize_vars

\* one calibration batch of a tensor: its min/max start the statistics or
\* are averaged into them
MinMaxCalibrate ==
    /\ quant_call = None
    /\ Len(calibrate_calls) < MaxUpdates
    /\ \E tensor_content \in {<<first, second>> : first \in {-2, 0, 3}, second \in {-2, 0, 3}}, smoothing_factor \in { <<0, 1>>, <<1, 2>>, <<1, 1>> } :
           /\ tensor_qsv' = IF tensor_qsv = None THEN Some(min_max_calibrate(tensor_content))
                             ELSE Some(update_tensor_qsv_moving_average(ValueOf(tensor_qsv), min_max_calibrate(tensor_content), smoothing_factor))
           /\ calibrate_calls' = Append(calibrate_calls, [old_qsv |-> tensor_qsv, new_qsv |-> min_max_calibrate(tensor_content), smoothing_factor |-> smoothing_factor])
    /\ UNCHANGED quant_call
    /\ UNCHANGED recipe_vars
    /\ UNCHANGED graph_vars
    /\ UNCHANGED materialize_vars

NextCodec == TensorZpScaleFromMinMax \/ UniformQuantize \/ UniformDequantize \/ MinMaxCalibrate

CodecSpec == InitCodec /\ [][NextCodec]_vars

(***************************************************************************)
(* The tensor materializer (min_max_quantize_utils, materialize_fc_conv)   *)
(*                                                                         *)
(* A buffer of the graph view holds the decoded elements of its tensor.    *)
(***************************************************************************)
WEIGHT_ONLY == "WEIGHT_ONLY"
DRQ == "DRQ"
SRQ == "SRQ"
OpExecutionModes == {WEIGHT_ONLY, DRQ, SRQ}


CONV_2D == "CONV_2D"
SUPPORTED_WEIGHT_ONLY_OPS == {FULLY_CONNECTED, CONV_2D, "BATCH_MATMUL", "EMBEDDING_LOOKUP", "DEPTHWISE_CONV_2D"}
SUPPORTED_DRQ_OPS == {FULLY_CONNECTED, CONV_2D, "BATCH_MATMUL", "EMBEDDING_LOOKUP", "DEPTHWISE_CONV_2D"}

TFL_OP_TO_WEIGHT_QUANTIZED_DIM == [op_name \in {FULLY_CONNECTED, "DEPTHWISE_CONV_2D", CONV_2D, "EMBEDDING_LOOKUP"} |-> IF op_name = "DEPTHWISE_CONV_2D" THEN 3 ELSE 0]

\* the data kinds a tensor config declares; a config is integer unless told
\* otherwise
TensorDataType == [INT |-> "INT", FLOAT |-> "FLOAT"]

TensorQuantizationConfig(num_bits, symmetric, channel_wise) == [num_bits |-> num_bits, symmetric |-> symmetric, channel_wise |-> channel_wise, dtype |-> TensorDataType.INT]

OpQuantizationConfig(activation_tensor_config, weight_tensor_config, execution_mode) == [activation_tensor_config |-> activation_tensor_config, weight_tensor_config |-> weight_tensor_config, execution_mode |-> execution_mode]

OpToTensorParams(subgraph_op_id, transformations, parameters) == [subgraph_op_id |-> subgraph_op_id, transformations |-> transformations, parameters |-> parameters]

TensorTransformationParams(tensor_name, producer, consumers) == [tensor_name |-> tensor_name, producer |-> producer, consumers |-> consumers]

\* get_tensor_data: None for a tensor without data, else the elements in
\* the tensor's shape
get_tensor_data(tensor, graph_buffers) == IF At(graph_buffers, tensor.buffer).data = None THEN None ELSE Some(ndarray("float32", tensor.shape, ValueOf(At(graph_buffers, tensor.buffer).data)))

get_bmm_weight_quantized_dim_ignoring_adj_y(weight_tensor_data, adj_y) == Len(weight_tensor_data.shape) - 1

\* _get_bmm_weight_quantized_dim
get_bmm_weight_quantized_dim(weight_tensor_data, adj_y) == IF adj_y THEN Len(weight_tensor_data.shape) - 2 ELSE Len(weight_tensor_data.shape) - 1

\* _get_reduce_dims: every dimension but the quantized one, None (all of
\* them, for np.min and np.max) without a quantized dimension
get_reduce_dims(quantized_dim, tensor_shape) == IF quantized_dim = None THEN None ELSE Some({rank_idx \in 0..(Len(tensor_shape) - 1) : rank_idx # ValueOf(quantized_dim)})

\* np.min / np.max over the dimensions of axis, keepdims=True
reduce_min_max(array, axis) ==
    LET reduced(to_shape, entry) == {array.data[i] : i \in {j \in 1..Len(array.data) : channel_of(array.shape, to_shape, j) = entry}}
        reduce_to(to_shape, num_entries) ==
            [min |-> ndarray("float32", to_shape, [entry \in 1..num_entries |-> CHOOSE x \in reduced(to_shape, entry) : \A y \in reduced(to_shape, entry) : x <= y]),
             max |-> ndarray("float32", to_shape, [entry \in 1..num_entries |-> CHOOSE x \in reduced(to_shape, entry) : \A y \in reduced(to_shape, entry) : x >= y])]
        keepdims(to_shape) == reduce_to(to_shape, Cardinality({channel_of(array.shape, to_shape, j) : j \in 1..Len(array.data)}))
    IN  keepdims([k \in 1..Len(array.shape) |-> IF axis = None THEN 1 ELSE IF (k - 1) \in ValueOf(axis) THEN 1 ELSE array.shape[k]])

\* init_tensor_min_max: 0 and 6 for a tensor without data, the real
\* min/max of a constant tensor
init_tensor_min_max(tensor, graph_info, op_info) ==
    IF get_tensor_data(tensor, graph_info.buffers) = None
    THEN [min |-> ndarray("float64", [i \in 1..Len(tensor.shape) |-> 1], <<0>>), max |-> ndarray("float64", [i \in 1..Len(tensor.shape) |-> 1], <<6>>)]
    ELSE reduce_min_max(ValueOf(get_tensor_data(tensor, graph_info.buffers)),
                        get_reduce_dims(IF ~op_info.op_quant_config.weight_tensor_config.channel_wise THEN None
                                        ELSE IF op_info.op_name = "BATCH_MATMUL" THEN Some(get_bmm_weight_quantized_dim(ValueOf(get_tensor_data(tensor, graph_info.buffers)), op_info.op.builtinOptions.adjY))
                                        ELSE IF op_info.op_name \in DOMAIN TFL_OP_TO_WEIGHT_QUANTIZED_DIM THEN Some(TFL_OP_TO_WEIGHT_QUANTIZED_DIM[op_info.op_name])
                                        ELSE None,
                                        tensor.shape))

\* _get_tensor_quant_params: ValueError for a min/max record without min
\* or max; the quantized dimension of a channel-wise config is looked up
\* in the table (KeyError for an operator it does not hold) or, for a
\* batch matmul, taken from the shape of the content (AttributeError
\* without content); an error of uniform_quantize is the call's
get_tensor_quant_params(op_info, tensor_min_max, tensor_quant_config, tensor_content) ==
    LET zp_scale == tensor_zp_scale_from_min_max(tensor_min_max.min, tensor_min_max.max, tensor_quant_config.num_bits, tensor_quant_config.symmetric)
        quantized_dim == IF ~tensor_quant_config.channel_wise THEN None
                         ELSE IF op_info.op_name = "BATCH_MATMUL" THEN Some(get_bmm_weight_quantized_dim(ValueOf(tensor_content), op_info.op.builtinOptions.adjY))
                         ELSE Some(TFL_OP_TO_WEIGHT_QUANTIZED_DIM[op_info.op_name])
        quant_params == UniformQuantParams(tensor_quant_config.num_bits, quantized_dim, zp_scale.scale, zp_scale.zp, tensor_quant_config.symmetric, None)
        with_quantized_data(quantized_vars) == IF quantized_vars.error # "" THEN quantized_vars ELSE Returned([quant_params EXCEPT !.quantized_data = Some(quantized_vars.value)])
    IN  IF "min" \notin DOMAIN tensor_min_max \/ "max" \notin DOMAIN tensor_min_max THEN Raised("ValueError")
        ELSE IF tensor_quant_config.channel_wise /\ op_info.op_name = "BATCH_MATMUL" /\ tensor_content = None THEN Raised("AttributeError")
        ELSE IF tensor_quant_config.channel_wise /\ op_info.op_name # "BATCH_MATMUL" /\ op_info.op_name \notin DOMAIN TFL_OP_TO_WEIGHT_QUANTIZED_DIM THEN Raised("KeyError")
        ELSE IF tensor_content = None THEN Returned(quant_params)
        ELSE with_quantized_data(uniform_quantize(ValueOf(tensor_content), quant_params))

get_tensor_transformations_srq_everywhere(op_quant_config, is_inbounding_tensor, is_constant) ==
    IF is_inbounding_tensor
    THEN IF is_constant THEN <<QuantTransformation.QUANTIZE_TENSOR>> ELSE <<QuantTransformation.ADD_QUANTIZE>>
    ELSE <<QuantTransformation.ADD_DEQUANTIZE>>

get_tensor_transformations(op_quant_config, is_inbounding_tensor, is_constant) ==
    IF op_quant_config.execution_mode = SRQ
    THEN IF is_inbounding_tensor
         THEN IF is_constant THEN <<QuantTransformation.QUANTIZE_TENSOR>> ELSE <<QuantTransformation.ADD_QUANTIZE>>
         ELSE <<QuantTransformation.ADD_DEQUANTIZE>>
    ELSE IF op_quant_config.execution_mode = DRQ
    THEN IF is_inbounding_tensor /\ is_constant THEN <<QuantTransformation.QUANTIZE_TENSOR>> ELSE <<QuantTransformation.NO_QUANTIZE>>
    ELSE IF op_quant_config.execution_mode = WEIGHT_ONLY
    THEN IF is_inbounding_tensor /\ is_constant THEN <<QuantTransformation.ADD_DEQUANTIZE>> ELSE <<QuantTransformation.NO_QUANTIZE>>
    ELSE <<>>

get_tensor_transformation_params(tensor_name, op_info, is_inbounding_tensor, quant_params, is_constant) ==
    LET op2tensor_params == OpToTensorParams(op_info.subgraph_op_index, get_tensor_transformations(op_info.op_quant_config, is_inbounding_tensor, is_constant), quant_params)
    IN  IF is_inbounding_tensor
        THEN TensorTransformationParams(tensor_name, None, Some(<<op2tensor_params>>))
        ELSE TensorTransformationParams(tensor_name, Some(op2tensor_params), None)


get_tensor_transformation_params_wrapper_init_on_the_spot(tensor, is_inbounding_tensor, op_info, graph_info, tensor_name_to_qsv, quant_params) ==
    LET tensor_data == get_tensor_data(tensor, graph_info.buffers)
        is_constant == tensor_data # None
        tensor_quant_config == IF is_constant /\ op_info.op_name \in (SUPPORTED_WEIGHT_ONLY_OPS \cup SUPPORTED_DRQ_OPS) THEN Some(op_info.op_quant_config.weight_tensor_config) ELSE op_info.op_quant_config.activation_tensor_config
        with_quant_params(tensor_quant_params) ==
            IF tensor_quant_params.error # "" THEN tensor_quant_params
            ELSE Returned(get_tensor_transformation_params(tensor.name, op_info, is_inbounding_tensor, Some(tensor_quant_params.value), is_constant))
    IN  IF quant_params = None /\ tensor_quant_config # None
        THEN with_quant_params(get_tensor_quant_params(op_info, IF tensor.name \notin DOMAIN tensor_name_to_qsv THEN init_tensor_min_max(tensor, graph_info, op_info) ELSE tensor_name_to_qsv[tensor.name], ValueOf(tensor_quant_config), tensor_data))
        ELSE Returned(get_tensor_transformation_params(tensor.name, op_info, is_inbounding_tensor, quant_params, is_constant))

\* _get_tensor_transformation_params_wrapper
get_tensor_transformation_params_wrapper(tensor, is_inbounding_tensor, op_info, graph_info, tensor_name_to_qsv, quant_params) ==
    LET tensor_data == get_tensor_data(tensor, graph_info.buffers)
        is_constant == tensor_data # None
        tensor_quant_config == IF is_constant /\ op_info.op_name \in (SUPPORTED_WEIGHT_ONLY_OPS \cup SUPPORTED_DRQ_OPS) THEN Some(op_info.op_quant_config.weight_tensor_config) ELSE op_info.op_quant_config.activation_tensor_config
        with_quant_params(tensor_quant_params) ==
            IF tensor_quant_params.error # "" THEN tensor_quant_params
            ELSE Returned(get_tensor_transformation_params(tensor.name, op_info, is_inbounding_tensor, Some(tensor_quant_params.value), is_constant))
    IN  IF quant_params = None /\ tensor_quant_config # None
        THEN IF tensor.name \notin DOMAIN tensor_name_to_qsv /\ ~is_constant
             THEN [error |-> "ValueError", value |-> None, tensor_name |-> tensor.name]
             ELSE with_quant_params(get_tensor_quant_params(op_info, IF tensor.name \notin DOMAIN tensor_name_to_qsv THEN init_tensor_min_max(tensor, graph_info, op_info) ELSE tensor_name_to_qsv[tensor.name], ValueOf(tensor_quant_config), tensor_data))
        ELSE Returned(get_tensor_transformation_params(tensor.name, op_info, is_inbounding_tensor, quant_params, is_constant))

\* _materialize_op_tensors: the outcome for every tensor of the list
materialize_op_tensors(op_tensors, is_inbounding_tensor, op_info, graph_info, tensor_name_to_qsv, quant_params) == [i \in 1..Len(op_tensors) |-> get_tensor_transformation_params_wrapper(op_tensors[i], is_inbounding_tensor, op_info, graph_info, tensor_name_to_qsv, quant_params)]

RECURSIVE active_tensors(_, _, _, _)
\* the tensors of the slots from position on that are not ignored and not absent
active_tensors(indices, position, to_ignore, subgraph_tensors) ==
    IF position >= Len(indices) THEN <<>>
    ELSE IF position \notin to_ignore /\ At(indices, position) >= 0
    THEN <<At(subgraph_tensors, At(indices, position))>> \o active_tensors(indices, position + 1, to_ignore, subgraph_tensors)
    ELSE active_tensors(indices, position + 1, to_ignore, subgraph_tensors)

\* materialize_standard_op without a constraint: the inputs, then the
\* outputs; the first tensor that raises ends the call
materialize_standard_op(op_info, graph_info, tensor_name_to_qsv, inputs_to_ignore, outputs_to_ignore) ==
    LET input_tensors == active_tensors(op_info.op.inputs, 0, inputs_to_ignore, graph_info.subgraph_tensors)
        output_tensors == active_tensors(op_info.op.outputs, 0, outputs_to_ignore, graph_info.subgraph_tensors)
        collected(outcomes) ==
            IF \E i \in 1..Len(outcomes) : outcomes[i].error # ""
            THEN outcomes[CHOOSE i \in 1..Len(outcomes) : outcomes[i].error # "" /\ \A j \in 1..(i - 1) : outcomes[j].error = ""]
            ELSE Returned([i \in 1..Len(outcomes) |-> outcomes[i].value])
    IN  collected(materialize_op_tensors(input_tensors, TRUE, op_info, graph_info, tensor_name_to_qsv, None) \o materialize_op_tensors(output_tensors, FALSE, op_info, graph_info, tensor_name_to_qsv, None))

\* entry.consumers[0].parameters
consumer_parameters(entry) == At(ValueOf(entry.consumers), 0).parameters

\* the bias tensor parse_fc_bmm_conv_tensors finds, if any
bias_tensor_of(op, subgraph_tensors) == IF 2 < Len(op.inputs) /\ At(op.inputs, 2) # -1 THEN Some(At(subgraph_tensors, At(op.inputs, 2))) ELSE None

materialize_fc_conv_bias_never_constant(op_info, graph_info, tensor_name_to_qsv) ==
    LET bias_tensor == bias_tensor_of(op_info.op, graph_info.subgraph_tensors)
        is_srq == op_info.op_quant_config.execution_mode = SRQ
        with_bias_params(standard, bias_quant_params) ==
            IF bias_quant_params.error # "" THEN bias_quant_params
            ELSE Returned(Append(standard.value, get_tensor_transformation_params(ValueOf(bias_tensor).name, op_info, TRUE, bias_quant_params.value, FALSE)))
        with_bias(standard) ==
            IF standard.error # "" \/ bias_tensor = None THEN standard
            ELSE IF ~is_srq THEN with_bias_params(standard, Returned(None))
            ELSE IF consumer_parameters(At(standard.value, 0)) = None \/ consumer_parameters(At(standard.value, 1)) = None THEN Raised("AttributeError")
            ELSE with_bias_params(standard, LET quantized_bias == symmetric_quantize_bias_tensor(ValueOf(get_tensor_data(ValueOf(bias_tensor), graph_info.buffers)), ValueOf(consumer_parameters(At(standard.value, 0))), ValueOf(consumer_parameters(At(standard.value, 1))))
                                            IN  IF quantized_bias.error # "" THEN quantized_bias ELSE Returned(Some(quantized_bias.value)))
    IN  with_bias(materialize_standard_op(op_info, graph_info, tensor_name_to_qsv, {2}, {}))

materialize_fc_conv_bias_always_constant(op_info, graph_info, tensor_name_to_qsv) ==
    LET bias_tensor == bias_tensor_of(op_info.op, graph_info.subgraph_tensors)
        is_srq == op_info.op_quant_config.execution_mode = SRQ
        with_bias_params(standard, bias_quant_params) ==
            IF bias_quant_params.error # "" THEN bias_quant_params
            ELSE Returned(Append(standard.value, get_tensor_transformation_params(ValueOf(bias_tensor).name, op_info, TRUE, bias_quant_params.value, TRUE)))
        with_bias(standard) ==
            IF standard.error # "" \/ bias_tensor = None THEN standard
            ELSE IF ~is_srq THEN with_bias_params(standard, Returned(None))
            ELSE IF consumer_parameters(At(standard.value, 0)) = None \/ consumer_parameters(At(standard.value, 1)) = None THEN Raised("AttributeError")
            ELSE with_bias_params(standard, LET quantized_bias == symmetric_quantize_bias_tensor(ValueOf(get_tensor_data(ValueOf(bias_tensor), graph_info.buffers)), ValueOf(consumer_parameters(At(standard.value, 0))), ValueOf(consumer_parameters(At(standard.value, 1))))
                                            IN  IF quantized_bias.error # "" THEN quantized_bias ELSE Returned(Some(quantized_bias.value)))
    IN  with_bias(materialize_standard_op(op_info, graph_info, tensor_name_to_qsv, {2}, {}))

\* materialize_fc_conv: the standard entries without the bias slot, then
\* the bias entry, quantized under SRQ only
materialize_fc_conv(op_info, graph_info, tensor_name_to_qsv) ==
    LET bias_tensor == bias_tensor_of(op_info.op, graph_info.subgraph_tensors)
        is_srq == op_info.op_quant_config.execution_mode = SRQ
        with_bias_params(standard, bias_quant_params) ==
            IF bias_quant_params.error # "" THEN bias_quant_params
            ELSE Returned(Append(standard.value, get_tensor_transformation_params(ValueOf(bias_tensor).name, op_info, TRUE, bias_quant_params.value, is_srq)))
        with_bias(standard) ==
            IF standard.error # "" \/ bias_tensor = None THEN standard
            ELSE IF ~is_srq THEN with_bias_params(standard, Returned(None))
            ELSE IF consumer_parameters(At(standard.value, 0)) = None \/ consumer_parameters(At(standard.value, 1)) = None THEN Raised("AttributeError")
            ELSE with_bias_params(standard, LET quantized_bias == symmetric_quantize_bias_tensor(ValueOf(get_tensor_data(ValueOf(bias_tensor), graph_info.buffers)), ValueOf(consumer_parameters(At(standard.value, 0))), ValueOf(consumer_parameters(At(standard.value, 1))))
                                            IN  IF quantized_bias.error # "" THEN quantized_bias ELSE Returned(Some(quantized_bias.value)))
    IN  with_bias(materialize_standard_op(op_info, graph_info, tensor_name_to_qsv, {2}, {}))

RESHAPE == "RESHAPE"
SOFTMAX == "SOFTMAX"

\* the outcome of a call together with the calibration store it leaves
WithStore(outcome, tensor_name_to_qsv) == [outcome |-> outcome, tensor_name_to_qsv |-> tensor_name_to_qsv]

\* the first outcome of the list that raised
first_raised(outcomes) == outcomes[CHOOSE i \in 1..Len(outcomes) : outcomes[i].error # "" /\ \A j \in 1..(i - 1) : outcomes[j].error = ""]

materialize_standard_op_with_same_as_input_scale_own_output(input_tensors, output_tensors, op_info, graph_info, tensor_name_to_qsv) ==
    LET output_names == {output_tensors[i].name : i \in 1..Len(output_tensors)}
        with_outputs(input_tensor_params, outputs) ==
            IF \E i \in 1..Len(outputs) : outputs[i].error # "" THEN WithStore(first_raised(outputs), tensor_name_to_qsv)
            ELSE IF input_tensor_params.value.tensor_name \notin DOMAIN tensor_name_to_qsv THEN WithStore(Raised("KeyError"), tensor_name_to_qsv)
            ELSE WithStore(Returned(<<input_tensor_params.value>> \o [i \in 1..Len(outputs) |-> outputs[i].value]),
                           [tensor_name \in DOMAIN tensor_name_to_qsv \cup output_names |-> IF tensor_name \in output_names THEN tensor_name_to_qsv[input_tensor_params.value.tensor_name] ELSE tensor_name_to_qsv[tensor_name]])
        with_input(input_tensor_params) ==
            IF input_tensor_params.error # "" THEN WithStore(input_tensor_params, tensor_name_to_qsv)
            ELSE with_outputs(input_tensor_params, materialize_op_tensors(output_tensors, FALSE, op_info, graph_info, tensor_name_to_qsv, None))
    IN  IF Len(input_tensors) # 1 THEN WithStore(Raised("ValueError"), tensor_name_to_qsv)
        ELSE with_input(get_tensor_transformation_params_wrapper(input_tensors[1], TRUE, op_info, graph_info, tensor_name_to_qsv, None))

materialize_standard_op_with_same_as_input_scale_keeping_store(input_tensors, output_tensors, op_info, graph_info, tensor_name_to_qsv) ==
    LET output_names == {output_tensors[i].name : i \in 1..Len(output_tensors)}
        with_outputs(input_tensor_params, outputs) ==
            IF \E i \in 1..Len(outputs) : outputs[i].error # "" THEN WithStore(first_raised(outputs), tensor_name_to_qsv)
            ELSE IF input_tensor_params.value.tensor_name \notin DOMAIN tensor_name_to_qsv THEN WithStore(Raised("KeyError"), tensor_name_to_qsv)
            ELSE WithStore(Returned(<<input_tensor_params.value>> \o [i \in 1..Len(outputs) |-> outputs[i].value]),
                           tensor_name_to_qsv)
        with_input(input_tensor_params) ==
            IF input_tensor_params.error # "" THEN WithStore(input_tensor_params, tensor_name_to_qsv)
            ELSE with_outputs(input_tensor_params, materialize_op_tensors(output_tensors, FALSE, op_info, graph_info, tensor_name_to_qsv, consumer_parameters(input_tensor_params.value)))
    IN  IF Len(input_tensors) # 1 THEN WithStore(Raised("ValueError"), tensor_name_to_qsv)
        ELSE with_input(get_tensor_transformation_params_wrapper(input_tensors[1], TRUE, op_info, graph_info, tensor_name_to_qsv, None))

\* _materialize_standard_op_with_same_as_input_scale: the single input
\* (_get_single_tensor_params raises on any other number), the outputs
\* with the input's parameters handed down, and the store with every
\* output's entry overwritten by the input's
materialize_standard_op_with_same_as_input_scale(input_tensors, output_tensors, op_info, graph_info, tensor_name_to_qsv) ==
    LET output_names == {output_tensors[i].name : i \in 1..Len(output_tensors)}
        with_outputs(input_tensor_params, outputs) ==
            IF \E i \in 1..Len(outputs) : outputs[i].error # "" THEN WithStore(first_raised(outputs), tensor_name_to_qsv)
            ELSE IF input_tensor_params.value.tensor_name \notin DOMAIN tensor_name_to_qsv THEN WithStore(Raised("KeyError"), tensor_name_to_qsv)
            ELSE WithStore(Returned(<<input_tensor_params.value>> \o [i \in 1..Len(outputs) |-> outputs[i].value]),
                           [tensor_name \in DOMAIN tensor_name_to_qsv \cup output_names |-> IF tensor_name \in output_names THEN tensor_name_to_qsv[input_tensor_params.value.tensor_name] ELSE tensor_name_to_qsv[tensor_name]])
        with_input(input_tensor_params) ==
            IF input_tensor_params.error # "" THEN WithStore(input_tensor_params, tensor_name_to_qsv)
            ELSE with_outputs(input_tensor_params, materialize_op_tensors(output_tensors, FALSE, op_info, graph_info, tensor_name_to_qsv, consumer_parameters(input_tensor_params.value)))
    IN  IF Len(input_tensors) # 1 THEN WithStore(Raised("ValueError"), tensor_name_to_qsv)
        ELSE with_input(get_tensor_transformation_params_wrapper(input_tensors[1], TRUE, op_info, graph_info, tensor_name_to_qsv, None))

\* materialize_reshape: materialize_standard_op with SAME_AS_INPUT_SCALE,
\* the shape tensor (input 1) ignored
materialize_reshape(op_info, graph_info, tensor_name_to_qsv) ==
    materialize_standard_op_with_same_as_input_scale(active_tensors(op_info.op.inputs, 0, {1}, graph_info.subgraph_tensors), active_tensors(op_info.op.outputs, 0, {}, graph_info.subgraph_tensors), op_info, graph_info, tensor_name_to_qsv)

\* materialize_average_pool_2d: materialize_standard_op with
\* SAME_AS_INPUT_SCALE, no input ignored
materialize_average_pool_2d(op_info, graph_info, tensor_name_to_qsv) ==
    materialize_standard_op_with_same_as_input_scale(active_tensors(op_info.op.inputs, 0, {}, graph_info.subgraph_tensors), active_tensors(op_info.op.outputs, 0, {}, graph_info.subgraph_tensors), op_info, graph_info, tensor_name_to_qsv)

materialize_op_with_output_activation_constraint_keeping_output(op_info, graph_info, tensor_name_to_qsv, output_activation_constraints) ==
    LET activation_tensor_config == op_info.op_quant_config.activation_tensor_config
        with_output(tensor_params, output_tensor_params) ==
            IF activation_tensor_config # None /\ output_tensor_params.producer # None
            THEN IF ValueOf(activation_tensor_config).num_bits \notin DOMAIN output_activation_constraints THEN Raised("ValueError")
                 ELSE tensor_params
            ELSE tensor_params
        constrained(tensor_params) ==
            IF tensor_params.error # "" THEN tensor_params
            ELSE IF tensor_params.value = <<>> THEN Raised("IndexError")
            ELSE with_output(tensor_params, tensor_params.value[Len(tensor_params.value)])
    IN  IF Len(op_info.op.outputs) # 1 THEN Raised("ValueError")
        ELSE constrained(materialize_standard_op(op_info, graph_info, tensor_name_to_qsv, {}, {}))

\* materialize_op_with_output_activation_constraint: the standard entries,
\* the last one's producer parameters replaced by the parameters
\* registered for the activation bit width
materialize_op_with_output_activation_constraint(op_info, graph_info, tensor_name_to_qsv, output_activation_constraints) ==
    LET activation_tensor_config == op_info.op_quant_config.activation_tensor_config
        with_output(tensor_params, output_tensor_params) ==
            IF activation_tensor_config # None /\ output_tensor_params.producer # None
            THEN IF ValueOf(activation_tensor_config).num_bits \notin DOMAIN output_activation_constraints THEN Raised("ValueError")
                 ELSE Returned([tensor_params.value EXCEPT ![Len(tensor_params.value)].producer =
                          Some(OpToTensorParams(ValueOf(output_tensor_params.producer).subgraph_op_id, ValueOf(output_tensor_params.producer).transformations, Some(output_activation_constraints[ValueOf(activation_tensor_config).num_bits])))])
            ELSE tensor_params
        constrained(tensor_params) ==
            IF tensor_params.error # "" THEN tensor_params
            ELSE IF tensor_params.value = <<>> THEN Raised("IndexError")
            ELSE with_output(tensor_params, tensor_params.value[Len(tensor_params.value)])
    IN  IF Len(op_info.op.outputs) # 1 THEN Raised("ValueError")
        ELSE constrained(materialize_standard_op(op_info, graph_info, tensor_name_to_qsv, {}, {}))

INT4_DRQ_SUPPORTED_OPS == {FULLY_CONNECTED}

check_drq_config_int4_everywhere(op_name, op_quant_config) ==
    IF op_name \notin SUPPORTED_DRQ_OPS THEN Raised("ValueError")
    ELSE IF op_quant_config.weight_tensor_config.num_bits \notin {4, 8} \/ ~op_quant_config.weight_tensor_config.symmetric THEN Raised("ValueError")
    ELSE Returned(None)

\* check_drq_config: returns None or raises ValueError
check_drq_config(op_name, op_quant_config) ==
    IF op_name \notin SUPPORTED_DRQ_OPS THEN Raised("ValueError")
    ELSE IF op_quant_config.weight_tensor_config.num_bits \notin {4, 8} \/ ~op_quant_config.weight_tensor_config.symmetric THEN Raised("ValueError")
    ELSE IF op_quant_config.weight_tensor_config.num_bits = 4 /\ op_name \notin INT4_DRQ_SUPPORTED_OPS THEN Raised("ValueError")
    ELSE Returned(None)

SUPPORTED_SRQ_OPS == {FULLY_CONNECTED, CONV_2D, "AVERAGE_POOL_2D", RESHAPE, SOFTMAX, "DEPTHWISE_CONV_2D", "TANH", "TRANSPOSE", "GELU", "ADD", "SUB", "MUL", "BATCH_MATMUL"}

INT4_SRQ_SUPPORTED_OPS == {FULLY_CONNECTED, CONV_2D, "EMBEDDING_LOOKUP"}

check_srq_config_int16_asymmetric(op_name, op_quant_config) ==
    IF op_name \notin SUPPORTED_SRQ_OPS THEN Raised("ValueError")
    ELSE IF op_quant_config.activation_tensor_config = None THEN Raised("ValueError")
    ELSE IF ValueOf(op_quant_config.activation_tensor_config).dtype # TensorDataType.INT THEN Raised("ValueError")
    ELSE IF ValueOf(op_quant_config.activation_tensor_config).num_bits \notin {8, 16} THEN Raised("ValueError")
    ELSE IF op_quant_config.weight_tensor_config.num_bits \notin {4, 8} \/ ~op_quant_config.weight_tensor_config.symmetric THEN Raised("ValueError")
    ELSE IF op_quant_config.weight_tensor_config.num_bits = 4 /\ op_name \notin INT4_SRQ_SUPPORTED_OPS THEN Raised("ValueError")
    ELSE Returned(None)

\* check_srq_config: returns None or raises ValueError
check_srq_config(op_name, op_quant_config) ==
    IF op_name \notin SUPPORTED_SRQ_OPS THEN Raised("ValueError")
    ELSE IF op_quant_config.activation_tensor_config = None THEN Raised("ValueError")
    ELSE IF ValueOf(op_quant_config.activation_tensor_config).dtype # TensorDataType.INT THEN Raised("ValueError")
    ELSE IF ValueOf(op_quant_config.activation_tensor_config).num_bits \notin {8, 16} THEN Raised("ValueError")
    ELSE IF ValueOf(op_quant_config.activation_tensor_config).num_bits = 16 /\ ~ValueOf(op_quant_config.activation_tensor_config).symmetric THEN Raised("ValueError")
    ELSE IF op_quant_config.weight_tensor_config.num_bits \notin {4, 8} \/ ~op_quant_config.weight_tensor_config.symmetric THEN Raised("ValueError")
    ELSE IF op_quant_config.weight_tensor_config.num_bits = 4 /\ op_name \notin INT4_SRQ_SUPPORTED_OPS THEN Raised("ValueError")
    ELSE Returned(None)

(***************************************************************************)
(* Materializing one fully-connected or convolution operator               *)
(***************************************************************************)
\* the operator reads tensor 0 (activation), tensor 1 (constant weight)
\* and, when it has one, tensor 2 (constant bias), and writes tensor 3;
\* tensor 4 is the second output of an operator that has two
FcTensors ==
    << [name |-> "input", buffer |-> 0, shape |-> <<1, 2>>],
       [name |-> "weight", buffer |-> 1, shape |-> <<2, 2>>],
       [name |-> "bias", buffer |-> 2, shape |-> <<2>>],
       [name |-> "output", buffer |-> 0, shape |-> <<1, 2>>],
       [name |-> "output_1", buffer |-> 0, shape |-> <<2, 1>>] >>

FcBuffers == << [data |-> None], [data |-> Some(<<1, -2, 3, 4>>)], [data |-> Some(<<5, -7>>)] >>

FcGraphInfo == [subgraph_tensors |-> FcTensors, buffers |-> FcBuffers]

\* no bias slot, an absent bias, a bias
FcInputs == { <<0, 1>>, <<0, 1, -1>>, <<0, 1, 2>> }

WeightConfigs == {TensorQuantizationConfig(num_bits, symmetric, channel_wise) : num_bits \in {4, 8}, symmetric \in BOOLEAN, channel_wise \in BOOLEAN}

ActivationConfigs == {None, Some(TensorQuantizationConfig(8, TRUE, FALSE)), Some(TensorQuantizationConfig(8, FALSE, FALSE)), Some(TensorQuantizationConfig(16, TRUE, FALSE))}

OpInfos == {[op |-> [inputs |-> inputs, outputs |-> <<3>>], op_name |-> op_name, subgraph_op_index |-> 0, op_quant_config |-> OpQuantizationConfig(activation_tensor_config, weight_tensor_config, execution_mode)] : inputs \in FcInputs, op_name \in {FULLY_CONNECTED, CONV_2D}, activation_tensor_config \in ActivationConfigs, weight_tensor_config \in WeightConfigs, execution_mode \in OpExecutionModes}

\* reshape, softmax: the data input alone, with the shape tensor, with a
\* third input, without the data input, a constant as the data input; one
\* output or two
ConstrainedOpInfos == {[op |-> [inputs |-> inputs, outputs |-> outputs], op_name |-> op_name, subgraph_op_index |-> 0, op_quant_config |-> OpQuantizationConfig(activation_tensor_config, TensorQuantizationConfig(8, TRUE, FALSE), execution_mode)] : inputs \in { <<0>>, <<0, 1>>, <<0, 1, 2>>, <<-1, 1>>, <<1, 1>> }, outputs \in { <<3>>, <<3, 4>> }, op_name \in {RESHAPE, SOFTMAX, "AVERAGE_POOL_2D"}, activation_tensor_config \in ActivationConfigs, execution_mode \in OpExecutionModes}

\* operators and weight configs check_drq_config is asked about
CheckedOpInfos == {[op |-> [inputs |-> <<0, 1>>, outputs |-> <<3>>], op_name |-> op_name, subgraph_op_index |-> 0, op_quant_config |-> OpQuantizationConfig(None, TensorQuantizationConfig(num_bits, symmetric, channel_wise), DRQ)] : op_name \in {FULLY_CONNECTED, CONV_2D, RESHAPE, "AVERAGE_POOL_2D", "MUL"}, num_bits \in {2, 4, 8}, symmetric \in BOOLEAN, channel_wise \in BOOLEAN}

\* operators and configs check_srq_config is asked about: operators in and
\* out of the static-range set and the int4 list; no activation config, 8,
\* 14 and 16 bits, a float activation config; 2-, 4- and 8-bit weights
SrqCheckedOpInfos == {[op |-> [inputs |-> <<0, 1>>, outputs |-> <<3>>], op_name |-> op_name, subgraph_op_index |-> 0, op_quant_config |-> OpQuantizationConfig(activation_tensor_config, TensorQuantizationConfig(num_bits, symmetric, FALSE), SRQ)] :
                         op_name \in {FULLY_CONNECTED, CONV_2D, RESHAPE, "MUL", "EMBEDDING_LOOKUP", CUSTOM_OP},
                         activation_tensor_config \in {None, Some([TensorQuantizationConfig(8, TRUE, FALSE) EXCEPT !.dtype = TensorDataType.FLOAT])} \cup {Some(TensorQuantizationConfig(activation_num_bits, activation_symmetric, FALSE)) : activation_num_bits \in {8, 14, 16}, activation_symmetric \in BOOLEAN},
                         num_bits \in {2, 4, 8}, symmetric \in BOOLEAN}

\* operators with a constant weight whose quantized dimension is asked
\* for: with and without channel-wise weights, batch matmul with and
\* without a transposed right operand
ChannelWiseOpInfos == {[op |-> [inputs |-> <<0, 1>>, outputs |-> <<3>>, builtinOptions |-> [adjY |-> adj_y]], op_name |-> op_name, subgraph_op_index |-> 0, op_quant_config |-> OpQuantizationConfig(None, TensorQuantizationConfig(num_bits, symmetric, channel_wise), execution_mode)] :
                          op_name \in {FULLY_CONNECTED, CONV_2D, "EMBEDDING_LOOKUP", "DEPTHWISE_CONV_2D", "BATCH_MATMUL"}, adj_y \in BOOLEAN,
                          num_bits \in {4, 8}, symmetric \in BOOLEAN, channel_wise \in BOOLEAN, execution_mode \in {WEIGHT_ONLY, DRQ}}

\* the overrides an operator registers for its output, by activation bit
\* width: for 8 and 16 bits, for 8 bits only, none
OutputActivationConstraints ==
    LET for_8_bits == UniformQuantParams(8, None, ndarray("float32", <<1>>, << <<1, 256>> >>), ndarray("int64", <<1>>, <<-128>>), FALSE, None)
        for_16_bits == UniformQuantParams(16, None, ndarray("float32", <<1>>, << <<1, 32768>> >>), ndarray("int64", <<1>>, <<0>>), TRUE, None)
    IN  { [num_bits \in {8, 16} |-> IF num_bits = 8 THEN for_8_bits ELSE for_16_bits], [num_bits \in {8} |-> for_8_bits], [num_bits \in {} |-> for_8_bits] }

\* what calibration recorded for a tensor: a range for an activation, the
\* real min/max for the weight
calibrated(tensor_name, op_info) ==
    IF tensor_name = "input" THEN [min |-> ndarray("float32", <<1, 1>>, <<-3>>), max |-> ndarray("float32", <<1, 1>>, <<6>>)]
    ELSE IF tensor_name = "output" THEN [min |-> ndarray("float32", <<1, 1>>, <<-1>>), max |-> ndarray("float32", <<1, 1>>, <<3>>)]
    ELSE IF tensor_name = "output_1" THEN [min |-> ndarray("float32", <<1, 1>>, <<0>>), max |-> ndarray("float32", <<1, 1>>, <<2>>)]
    ELSE init_tensor_min_max(At(FcTensors, 1), FcGraphInfo, op_info)

InitMaterialize ==
    /\ RecipeIdle
    /\ GraphIdle
    /\ CodecIdle
    /\ \/ /\ current_op_info \in OpInfos
          /\ current_graph_info = FcGraphInfo
          /\ \E calibrated_names \in SUBSET {"input", "weight", "output"} :
                 calibration_qsvs = [tensor_name \in calibrated_names |-> calibrated(tensor_name, current_op_info)]
       \/ /\ current_op_info \in ConstrainedOpInfos
          /\ current_graph_info = FcGraphInfo
          /\ \E calibrated_names \in SUBSET {"input", "weight", "output", "output_1"} :
                 calibration_qsvs = [tensor_name \in calibrated_names |-> calibrated(tensor_name, current_op_info)]
       \/ /\ current_op_info \in CheckedOpInfos \cup SrqCheckedOpInfos
          /\ current_graph_info = FcGraphInfo
          /\ calibration_qsvs = [tensor_name \in {} |-> calibrated(tensor_name, current_op_info)]
       \/ /\ current_op_info \in ChannelWiseOpInfos
          /\ \E weight_shape \in { <<2, 2>>, <<1, 2, 2>>, <<2, 1, 1, 2>>, <<1, 1, 2, 2>> } :
                 /\ Len(weight_shape) = 4 <=> current_op_info.op_name \in {CONV_2D, "DEPTHWISE_CONV_2D"}
                 /\ Len(weight_shape) = 3 => current_op_info.op_name = "BATCH_MATMUL"
                 /\ current_graph_info = [subgraph_tensors |-> [FcTensors EXCEPT ![2].shape = weight_shape], buffers |-> FcBuffers]
          /\ calibration_qsvs = [tensor_name \in {} |-> calibrated(tensor_name, current_op_info)]
       \* a store holding for the weight a record without max, without min,
       \* ranges of rank 1, of three channels, one range per element
       \/ /\ current_op_info \in {op_info \in OpInfos : op_info.op.inputs = <<0, 1, 2>> /\ op_info.op_name = FULLY_CONNECTED /\ op_info.op_quant_config.weight_tensor_config.num_bits = 8 /\ op_info.op_quant_config.weight_tensor_config.symmetric}
          /\ current_graph_info = FcGraphInfo
          /\ \E weight_min_max \in { [min |-> ndarray("float32", <<1, 1>>, <<-2>>)], [max |-> ndarray("float32", <<1, 1>>, <<4>>)],
                                     [min |-> ndarray("float32", <<1>>, <<-2>>), max |-> ndarray("float32", <<1>>, <<4>>)],
                                     [min |-> ndarray("float32", <<3, 1>>, <<-2, -2, 3>>), max |-> ndarray("float32", <<3, 1>>, <<1, 4, 4>>)],
                                     [min |-> ndarray("float32", <<2, 2>>, <<1, -2, 3, 4>>), max |-> ndarray("float32", <<2, 2>>, <<1, -2, 3, 4>>)] } :
                 \E calibrated_names \in SUBSET {"input", "output"} :
                     calibration_qsvs = [tensor_name \in calibrated_names \cup {"weight"} |-> IF tensor_name = "weight" THEN weight_min_max ELSE calibrated(tensor_name, current_op_info)]
       \* a channel-wise activation config on operators the table of
       \* quantized dimensions does not hold
       \/ /\ current_op_info \in {[op |-> [inputs |-> <<0>>, outputs |-> <<3>>], op_name |-> op_name, subgraph_op_index |-> 0, op_quant_config |-> OpQuantizationConfig(Some(TensorQuantizationConfig(8, TRUE, TRUE)), TensorQuantizationConfig(8, TRUE, FALSE), SRQ)] : op_name \in {RESHAPE, SOFTMAX, "AVERAGE_POOL_2D"}}
          /\ current_graph_info = FcGraphInfo
          /\ \E calibrated_names \in SUBSET {"input", "output"} :
                 calibration_qsvs = [tensor_name \in calibrated_names |-> calibrated(tensor_name, current_op_info)]
    /\ materialized = None
    /\ materialize_call = None
    /\ transformations_call = None

MaterializeFcConv ==
    /\ materialized = None
    /\ current_op_info.op_name \in {FULLY_CONNECTED, CONV_2D}
    /\ materialized' = Some(materialize_fc_conv(current_op_info, current_graph_info, calibration_qsvs))
    /\ materialize_call' = Some([name |-> "materialize_fc_conv"])
    /\ UNCHANGED <<current_op_info, current_graph_info, calibration_qsvs, transformations_call>>
    /\ UNCHANGED recipe_vars
    /\ UNCHANGED graph_vars
    /\ UNCHANGED codec_vars

GetTensorTransformations ==
    /\ \E is_inbounding_tensor \in BOOLEAN, is_constant \in BOOLEAN :
           transformations_call' = Some([op_quant_config |-> current_op_info.op_quant_config, is_inbounding_tensor |-> is_inbounding_tensor, is_constant |-> is_constant,
                                         result |-> get_tensor_transformations(current_op_info.op_quant_config, is_inbounding_tensor, is_constant)])
    /\ UNCHANGED <<current_op_info, current_graph_info, calibration_qsvs, materialized, materialize_call>>
    /\ UNCHANGED recipe_vars
    /\ UNCHANGED graph_vars
    /\ UNCHANGED codec_vars

MaterializeReshape ==
    /\ materialized = None
    /\ current_op_info.op_name = RESHAPE
    /\ LET returns(r) == /\ materialized' = Some(r.outcome)
                         /\ calibration_qsvs' = r.tensor_name_to_qsv
       IN  returns(materialize_reshape(current_op_info, current_graph_info, calibration_qsvs))
    /\ materialize_call' = Some([name |-> "materialize_reshape"])
    /\ UNCHANGED <<current_op_info, current_graph_info, transformations_call>>
    /\ UNCHANGED recipe_vars
    /\ UNCHANGED graph_vars
    /\ UNCHANGED codec_vars

MaterializeAveragePool2d ==
    /\ materialized = None
    /\ current_op_info.op_name = "AVERAGE_POOL_2D"
    /\ LET returns(r) == /\ materialized' = Some(r.outcome)
                         /\ calibration_qsvs' = r.tensor_name_to_qsv
       IN  returns(materialize_average_pool_2d(current_op_info, current_graph_info, calibration_qsvs))
    /\ materialize_call' = Some([name |-> "materialize_average_pool_2d"])
    /\ UNCHANGED <<current_op_info, current_graph_info, transformations_call>>
    /\ UNCHANGED recipe_vars
    /\ UNCHANGED graph_vars
    /\ UNCHANGED codec_vars

MaterializeOpWithOutputActivationConstraint ==
    /\ materialized = None
    /\ current_op_info.op_name = SOFTMAX
    /\ \E output_activation_constraints \in OutputActivationConstraints :
           /\ materialized' = Some(materialize_op_with_output_activation_constraint(current_op_info, current_graph_info, calibration_qsvs, output_activation_constraints))
           /\ materialize_call' = Some([name |-> "materialize_op_with_output_activation_constraint", output_activation_constraints |-> output_activation_constraints])
    /\ UNCHANGED <<current_op_info, current_graph_info, calibration_qsvs, transformations_call>>
    /\ UNCHANGED recipe_vars
    /\ UNCHANGED graph_vars
    /\ UNCHANGED codec_vars

CheckDrqConfig ==
    /\ materialized = None
    /\ materialized' = Some(check_drq_config(current_op_info.op_name, current_op_info.op_quant_config))
    /\ materialize_call' = Some([name |-> "check_drq_config"])
    /\ UNCHANGED <<current_op_info, current_graph_info, calibration_qsvs, transformations_call>>
    /\ UNCHANGED recipe_vars
    /\ UNCHANGED graph_vars
    /\ UNCHANGED codec_vars

CheckSrqConfig ==
    /\ materialized = None
    /\ materialized' = Some(check_srq_config(current_op_info.op_name, current_op_info.op_quant_config))
    /\ materialize_call' = Some([name |-> "check_srq_config"])
    /\ UNCHANGED <<current_op_info, current_graph_info, calibration_qsvs, transformations_call>>
    /\ UNCHANGED recipe_vars
    /\ UNCHANGED graph_vars
    /\ UNCHANGED codec_vars

\* the wrapper on the operator's constant weight, tensor 1
GetTensorTransformationParamsWrapper ==
    /\ materialized = None
    /\ materialized' = Some(get_tensor_transformation_params_wrapper(At(current_graph_info.subgraph_tensors, 1), TRUE, current_op_info, current_graph_info, calibration_qsvs, None))
    /\ materialize_call' = Some([name |-> "get_tensor_transformation_params_wrapper"])
    /\ UNCHANGED <<current_op_info, current_graph_info, calibration_qsvs, transformations_call>>
    /\ UNCHANGED recipe_vars
    /\ UNCHANGED graph_vars
    /\ UNCHANGED codec_vars

NextMaterialize == MaterializeFcConv \/ GetTensorTransformations \/ MaterializeReshape \/ MaterializeAveragePool2d \/ MaterializeOpWithOutputActivationConstraint \/ CheckDrqConfig \/ CheckSrqConfig \/ GetTensorTransformationParamsWrapper

MaterializeSpec == InitMaterialize /\ [][NextMaterialize]_vars

(***************************************************************************)
(* Claims about the tensor materializer                                    *)
(***************************************************************************)
\* the one-element sequence the table gives for a mode and a tensor
table_transformations(execution_mode, is_inbounding_tensor, is_constant) ==
    CASE execution_mode = SRQ /\ is_inbounding_tensor /\ is_constant -> <<QuantTransformation.QUANTIZE_TENSOR>>
      [] execution_mode = SRQ /\ is_inbounding_tensor /\ ~is_constant -> <<QuantTransformation.ADD_QUANTIZE>>
      [] execution_mode = SRQ /\ ~is_inbounding_tensor -> <<QuantTransformation.ADD_DEQUANTIZE>>
      [] execution_mode = DRQ /\ is_inbounding_tensor /\ is_constant -> <<QuantTransformation.QUANTIZE_TENSOR>>
      [] execution_mode = DRQ /\ ~(is_inbounding_tensor /\ is_constant) -> <<QuantTransformation.NO_QUANTIZE>>
      [] execution_mode = WEIGHT_ONLY /\ is_inbounding_tensor /\ is_constant -> <<QuantTransformation.ADD_DEQUANTIZE>>
      [] execution_mode = WEIGHT_ONLY /\ ~(is_inbounding_tensor /\ is_constant) -> <<QuantTransformation.NO_QUANTIZE>>

\* C4: for every execution mode and every (is_inbounding_tensor,
\* is_constant), get_tensor_transformations returns exactly the one-element
\* sequence of the table.
C4_TransformationsTable ==
    transformations_call # None =>
        ValueOf(transformations_call).result = table_transformations(ValueOf(transformations_call).op_quant_config.execution_mode, ValueOf(transformations_call).is_inbounding_tensor, ValueOf(transformations_call).is_constant)

\* C4 witness: the call for an inbound constant under WEIGHT_ONLY returned
\* [ADD_DEQUANTIZE].
C4_Witness ==
    /\ transformations_call # None
    /\ ValueOf(transformations_call).op_quant_config.execution_mode = WEIGHT_ONLY
    /\ ValueOf(transformations_call).is_inbounding_tensor
    /\ ValueOf(transformations_call).is_constant
    /\ ValueOf(transformations_call).result = <<QuantTransformation.ADD_DEQUANTIZE>>

\* materialize_fc_conv was called and returned
FcConvReturned == materialized # None /\ ValueOf(materialize_call).name = "materialize_fc_conv" /\ ValueOf(materialized).error = ""

HasBias == bias_tensor_of(current_op_info.op, current_graph_info.subgraph_tensors) # None

\* the entries of the returned list for a tensor name
entries_of(tensor_name) == {i \in 1..Len(ValueOf(materialized).value) : ValueOf(materialized).value[i].tensor_name = tensor_name}

entry_of(tensor_name) == ValueOf(materialized).value[CHOOSE i \in entries_of(tensor_name) : TRUE]

\* the entry is that of an input of the operator, with these transformations
is_consumer_entry(entry, transformation_list) == entry.producer = None /\ entry.consumers # None /\ Len(ValueOf(entry.consumers)) = 1 /\ At(ValueOf(entry.consumers), 0).transformations = transformation_list

\* the entry is that of an output of the operator, with these transformations
is_producer_entry(entry, transformation_list) == entry.consumers = None /\ entry.producer # None /\ ValueOf(entry.producer).transformations = transformation_list

\* every entry of the store is what calibration records for its tensor
StoreAsCalibrated == \A tensor_name \in DOMAIN calibration_qsvs : calibration_qsvs[tensor_name] = calibrated(tensor_name, current_op_info)

\* C5: materialize_fc_conv in SRQ mode, for an operator with a calibrated
\* activation input, a constant weight, a constant fused bias and a
\* calibrated output, the store holding what calibration records (the
\* claim's case, 8-bit symmetric channel-wise
\* weights and 8-bit symmetric activations of a fully-connected, among
\* them), returns one entry per tensor: [ADD_QUANTIZE] for the input,
\* [QUANTIZE_TENSOR] for the weight, [ADD_DEQUANTIZE] for the output and
\* [QUANTIZE_TENSOR] for the bias, whose parameters are
\* symmetric_quantize_bias_tensor(bias data, the input's materialized
\* parameters, the weight's materialized parameters).
C5_SrqFcWithBias ==
    (materialized # None /\ ValueOf(materialize_call).name = "materialize_fc_conv" /\ current_op_info.op_quant_config.execution_mode = SRQ /\ current_op_info.op_quant_config.activation_tensor_config # None /\ HasBias /\ {"input", "output"} \subseteq DOMAIN calibration_qsvs /\ StoreAsCalibrated) =>
        /\ FcConvReturned
        /\ Len(ValueOf(materialized).value) = 4
        /\ \A tensor_name \in {"input", "weight", "output", "bias"} : Cardinality(entries_of(tensor_name)) = 1
        /\ is_consumer_entry(entry_of("input"), <<QuantTransformation.ADD_QUANTIZE>>)
        /\ is_consumer_entry(entry_of("weight"), <<QuantTransformation.QUANTIZE_TENSOR>>)
        /\ is_producer_entry(entry_of("output"), <<QuantTransformation.ADD_DEQUANTIZE>>)
        /\ is_consumer_entry(entry_of("bias"), <<QuantTransformation.QUANTIZE_TENSOR>>)
        /\ consumer_parameters(entry_of("input")) = Some(get_tensor_quant_params(current_op_info, calibration_qsvs["input"], ValueOf(current_op_info.op_quant_config.activation_tensor_config), None).value)
        /\ consumer_parameters(entry_of("weight")) # None
        /\ ValueOf(consumer_parameters(entry_of("weight"))).quantized_data = Some(uniform_quantize(ndarray("float32", <<2, 2>>, <<1, -2, 3, 4>>), ValueOf(consumer_parameters(entry_of("weight")))).value)
        /\ consumer_parameters(entry_of("bias")) = Some(symmetric_quantize_bias_tensor(ndarray("float32", <<2>>, <<5, -7>>), ValueOf(consumer_parameters(entry_of("input"))), ValueOf(consumer_parameters(entry_of("weight")))).value)

\* C5 witness: the claim's case was materialized: a fully-connected with
\* 8-bit symmetric channel-wise weights and 8-bit symmetric activations;
\* the bias [5, -7] has 32-bit parameters with the scales 6/127 * 2/127
\* and 6/127 * 4/127 and the values [6720, -4704].
C5_Witness ==
    /\ FcConvReturned
    /\ current_op_info.op_name = FULLY_CONNECTED
    /\ current_op_info.op.inputs = <<0, 1, 2>>
    /\ current_op_info.op_quant_config = OpQuantizationConfig(Some(TensorQuantizationConfig(8, TRUE, FALSE)), TensorQuantizationConfig(8, TRUE, TRUE), SRQ)
    /\ {"input", "output"} \subseteq DOMAIN calibration_qsvs
    /\ is_consumer_entry(entry_of("bias"), <<QuantTransformation.QUANTIZE_TENSOR>>)
    /\ ValueOf(consumer_parameters(entry_of("bias"))).num_bits = 32
    /\ ValueOf(consumer_parameters(entry_of("bias"))).scale.data = << <<12, 16129>>, <<24, 16129>> >>
    /\ ValueOf(ValueOf(consumer_parameters(entry_of("bias"))).quantized_data).data = <<6720, -4704>>

\* C6: materialize_fc_conv in WEIGHT_ONLY or DRQ mode never quantizes the
\* fused bias: no entry but those of input, weight and output exists when
\* there is no bias, and the entry of a bias carries [NO_QUANTIZE] and no
\* parameters; in WEIGHT_ONLY mode the weight's entry is [ADD_DEQUANTIZE]
\* and those of the activation input and output are [NO_QUANTIZE].
C6_NoBiasQuantizationOutsideSrq ==
    (FcConvReturned /\ current_op_info.op_quant_config.execution_mode \in {WEIGHT_ONLY, DRQ}) =>
        /\ Len(ValueOf(materialized).value) = IF HasBias THEN 4 ELSE 3
        /\ Cardinality(entries_of("bias")) = IF HasBias THEN 1 ELSE 0
        /\ HasBias => (is_consumer_entry(entry_of("bias"), <<QuantTransformation.NO_QUANTIZE>>) /\ consumer_parameters(entry_of("bias")) = None)
        /\ current_op_info.op_quant_config.execution_mode = WEIGHT_ONLY =>
               /\ is_consumer_entry(entry_of("weight"), <<QuantTransformation.ADD_DEQUANTIZE>>)
               /\ is_consumer_entry(entry_of("input"), <<QuantTransformation.NO_QUANTIZE>>)
               /\ is_producer_entry(entry_of("output"), <<QuantTransformation.NO_QUANTIZE>>)

\* C6 witness: a WEIGHT_ONLY operator with a bias was materialized without
\* any calibration result, and one in DRQ mode is covered by the formula.
C6_Witness ==
    /\ FcConvReturned
    /\ current_op_info.op_quant_config.execution_mode = WEIGHT_ONLY
    /\ current_op_info.op_quant_config.activation_tensor_config = None
    /\ HasBias
    /\ DOMAIN calibration_qsvs = {}
    /\ is_consumer_entry(entry_of("bias"), <<QuantTransformation.NO_QUANTIZE>>)
    /\ is_consumer_entry(entry_of("weight"), <<QuantTransformation.ADD_DEQUANTIZE>>)

\* which call was made, if any
Called(name) == materialized # None /\ ValueOf(materialize_call).name = name

\* the tensors in the slots of an operator that are neither ignored nor absent
slot_tensors(indices, to_ignore) == [k \in 1..Cardinality({i \in 1..Len(indices) : (i - 1) \notin to_ignore /\ indices[i] >= 0}) |->
    At(current_graph_info.subgraph_tensors, indices[CHOOSE i \in 1..Len(indices) : (i - 1) \notin to_ignore /\ indices[i] >= 0 /\ Cardinality({j \in 1..i : (j - 1) \notin to_ignore /\ indices[j] >= 0}) = k])]

\* the calls that materialize under SAME_AS_INPUT_SCALE, and the inputs
\* such a call sees: materialize_reshape ignores input 1
SameAsInputScaleCalls == {"materialize_reshape", "materialize_average_pool_2d"}

same_as_input_inputs(name) == slot_tensors(current_op_info.op.inputs, IF name = "materialize_reshape" THEN {1} ELSE {})

op_outputs == slot_tensors(current_op_info.op.outputs, {})

is_activation(tensor) == At(current_graph_info.buffers, tensor.buffer).data = None

\* C12: materialize_standard_op with SAME_AS_INPUT_SCALE (through
\* materialize_reshape, which ignores input 1, and through
\* materialize_average_pool_2d, which ignores none) raises unless the
\* operator has exactly one active input; when it returns, the input's parameters
\* are those of the input's calibration entry, every output's producer
\* parameters are identical to the input's consumer parameters, and the
\* calibration entry of every output equals the input's.
C12_SameAsInputScale ==
    (materialized # None /\ ValueOf(materialize_call).name \in SameAsInputScaleCalls) =>
        /\ Len(same_as_input_inputs(ValueOf(materialize_call).name)) # 1 => ValueOf(materialized).error = "ValueError"
        /\ ValueOf(materialized).error = "" =>
               LET entries == ValueOf(materialized).value
                   input == same_as_input_inputs(ValueOf(materialize_call).name)[1]
                   config == current_op_info.op_quant_config.activation_tensor_config
               IN  /\ Len(entries) = 1 + Len(op_outputs)
                   /\ entries[1].tensor_name = input.name
                   /\ entries[1].producer = None
                   /\ input.name \in DOMAIN calibration_qsvs
                   /\ consumer_parameters(entries[1]) = IF config = None THEN None ELSE Some(get_tensor_quant_params(current_op_info, calibration_qsvs[input.name], ValueOf(config), get_tensor_data(input, current_graph_info.buffers)).value)
                   /\ \A i \in 1..Len(op_outputs) :
                          /\ entries[1 + i].tensor_name = op_outputs[i].name
                          /\ entries[1 + i].consumers = None
                          /\ ValueOf(entries[1 + i].producer).parameters = consumer_parameters(entries[1])
                          /\ op_outputs[i].name \in DOMAIN calibration_qsvs
                          /\ calibration_qsvs[op_outputs[i].name] = calibration_qsvs[input.name]

\* C12 witness: a reshape with its data input, its shape tensor and two
\* outputs was materialized in SRQ mode with 8-bit asymmetric activations:
\* both outputs carry the input's parameters (scale 3/85, zero point -43)
\* and the input's calibration entry.
C12_Witness ==
    /\ Called("materialize_reshape")
    /\ ValueOf(materialized).error = ""
    /\ current_op_info.op.inputs = <<0, 1>>
    /\ current_op_info.op.outputs = <<3, 4>>
    /\ current_op_info.op_quant_config.execution_mode = SRQ
    /\ current_op_info.op_quant_config.activation_tensor_config = Some(TensorQuantizationConfig(8, FALSE, FALSE))
    /\ ValueOf(ValueOf(ValueOf(materialized).value[3].producer).parameters).scale.data = << <<3, 85>> >>
    /\ ValueOf(ValueOf(ValueOf(materialized).value[3].producer).parameters).zero_point.data = <<-43>>
    /\ calibration_qsvs["output_1"] = calibrated("input", current_op_info)
    /\ calibration_qsvs["output"] = calibrated("input", current_op_info)

\* the step is a materialize_* call
Materializes == materialized = None /\ materialized' # None /\ ValueOf(materialize_call').name # "check_drq_config"

\* C13 as stated: no materialize_* call adds, removes or changes an entry
\* of the calibration store it is given.
C13_StoreReadOnly == [][ Materializes => calibration_qsvs' = calibration_qsvs ]_vars

\* C13 amended: a materialize_* call leaves the calibration store as it
\* was, except a call with the SAME_AS_INPUT_SCALE constraint that
\* returns: it sets the entry of every output tensor, adding it if there
\* was none, to the entry of the input tensor and leaves every other entry.
C13_StoreWrittenOnlyUnderSameAsInputScale ==
    [][ Materializes =>
          IF ValueOf(materialize_call').name \in SameAsInputScaleCalls /\ ValueOf(materialized').error = ""
          THEN /\ DOMAIN calibration_qsvs' = DOMAIN calibration_qsvs \cup {op_outputs[i].name : i \in 1..Len(op_outputs)}
               /\ \A tensor_name \in DOMAIN calibration_qsvs' :
                      calibration_qsvs'[tensor_name] = IF \E i \in 1..Len(op_outputs) : op_outputs[i].name = tensor_name THEN calibration_qsvs[same_as_input_inputs(ValueOf(materialize_call').name)[1].name] ELSE calibration_qsvs[tensor_name]
          ELSE calibration_qsvs' = calibration_qsvs ]_vars

\* C13 witness: a reshape was materialized and returned; the store holds,
\* for the output, the input's entry and not the range calibration
\* recorded for the output.
C13_Witness ==
    /\ Called("materialize_reshape")
    /\ ValueOf(materialized).error = ""
    /\ current_op_info.op.outputs = <<3>>
    /\ DOMAIN calibration_qsvs = {"input", "output"}
    /\ calibration_qsvs["output"] = calibrated("input", current_op_info)
    /\ calibration_qsvs["output"] # calibrated("output", current_op_info)

\* a materialize_* call was made
MaterializeCalled == materialized # None /\ ValueOf(materialize_call).name \in {"materialize_fc_conv", "materialize_op_with_output_activation_constraint"} \cup SameAsInputScaleCalls

\* the tensors the call made touches, and those of them whose parameters
\* it has to compute itself, in the order it visits them: all of them
\* without a constraint, the single input under SAME_AS_INPUT_SCALE
touched_tensors ==
    IF ValueOf(materialize_call).name = "materialize_fc_conv" THEN slot_tensors(current_op_info.op.inputs, {2}) \o op_outputs
    ELSE IF ValueOf(materialize_call).name \in SameAsInputScaleCalls THEN same_as_input_inputs(ValueOf(materialize_call).name) \o op_outputs
    ELSE slot_tensors(current_op_info.op.inputs, {}) \o op_outputs

own_parameter_tensors ==
    IF ValueOf(materialize_call).name = "materialize_fc_conv" THEN touched_tensors
    ELSE IF ValueOf(materialize_call).name \in SameAsInputScaleCalls THEN (IF Len(same_as_input_inputs(ValueOf(materialize_call).name)) = 1 THEN same_as_input_inputs(ValueOf(materialize_call).name) ELSE <<>>)
    ELSE IF Len(current_op_info.op.outputs) = 1 THEN touched_tensors ELSE <<>>

\* the config a tensor is quantized with: the weight config for a constant
\* of an operator with quantizable weights, else the activation config
config_of(tensor) == IF ~is_activation(tensor) /\ current_op_info.op_name \in {FULLY_CONNECTED, CONV_2D, "BATCH_MATMUL", "EMBEDDING_LOOKUP", "DEPTHWISE_CONV_2D"} THEN Some(current_op_info.op_quant_config.weight_tensor_config) ELSE current_op_info.op_quant_config.activation_tensor_config

\* the positions of the tensors whose parameters need a store entry that
\* is not there
missing_statistics == {i \in 1..Len(own_parameter_tensors) : is_activation(own_parameter_tensors[i]) /\ config_of(own_parameter_tensors[i]) # None /\ own_parameter_tensors[i].name \notin DOMAIN calibration_qsvs}

\* the positions of the tensors whose parameters are computed, from the
\* store entry or from the data, and whose computation raises
parameter_errors == {i \in 1..Len(own_parameter_tensors) :
    LET tensor == own_parameter_tensors[i]
    IN  /\ config_of(tensor) # None
        /\ ~is_activation(tensor) \/ tensor.name \in DOMAIN calibration_qsvs
        /\ get_tensor_quant_params(current_op_info, IF tensor.name \in DOMAIN calibration_qsvs THEN calibration_qsvs[tensor.name] ELSE init_tensor_min_max(tensor, current_graph_info, current_op_info), ValueOf(config_of(tensor)), get_tensor_data(tensor, current_graph_info.buffers)).error # ""}

\* the first position of a set of positions
first_of(positions) == CHOOSE i \in positions : \A j \in positions : i <= j

\* a constant without a store entry that was materialized has the
\* parameters of the min/max of its data
constants_initialized_on_the_spot ==
    (ValueOf(materialized).error = "" /\ ValueOf(materialize_call).name \notin SameAsInputScaleCalls) =>
        \A i \in 1..Len(own_parameter_tensors) :
            LET tensor == own_parameter_tensors[i]
                entry == ValueOf(materialized).value[i]
            IN  (~is_activation(tensor) /\ config_of(tensor) # None /\ tensor.name \notin DOMAIN calibration_qsvs) =>
                    /\ entry.tensor_name = tensor.name
                    /\ consumer_parameters(entry) = Some(get_tensor_quant_params(current_op_info, init_tensor_min_max(tensor, current_graph_info, current_op_info), ValueOf(config_of(tensor)), get_tensor_data(tensor, current_graph_info.buffers)).value)

\* C14 as stated: when an activation tensor the operator touches has no
\* entry in the calibration store, materializing the operator fails with
\* an error; a constant without an entry does not make it
\* fail, its min/max are computed from its data.
C14_MissingActivationAlwaysFails ==
    MaterializeCalled =>
        /\ (\E i \in 1..Len(touched_tensors) : is_activation(touched_tensors[i]) /\ touched_tensors[i].name \notin DOMAIN calibration_qsvs) =>
               ValueOf(materialized).error # ""
        /\ constants_initialized_on_the_spot

\* C14 amended: materializing an operator fails with a ValueError naming
\* the tensor exactly when the parameters of an activation tensor have to
\* be computed (the operator's config has an activation config and no
\* parameters are handed down from the operator's input), the tensor
\* has no entry in the calibration store and no earlier tensor's
\* parameters failed to compute; the tensor named is the first
\* such tensor, inputs before outputs.  Without an activation config
\* no activation needs an entry: materialize_fc_conv in WEIGHT_ONLY or
\* DRQ mode and materialize_op_with_output_activation_constraint on an
\* operator with one output return.  The outputs of a
\* SAME_AS_INPUT_SCALE call need no entry of their own, but its single
\* input does, parameters or not: the call raises KeyError when it
\* copies the entry of an input that has none, and returns when the input
\* has one.  A constant without an entry is never named: its min/max are
\* computed from its data.
C14_MissingActivationFailsWhenParametersNeeded ==
    MaterializeCalled =>
        /\ (missing_statistics # {} /\ \A j \in parameter_errors : first_of(missing_statistics) < j) =>
               /\ ValueOf(materialized).error = "ValueError"
               /\ "tensor_name" \in DOMAIN ValueOf(materialized)
               /\ ValueOf(materialized).tensor_name = own_parameter_tensors[first_of(missing_statistics)].name
        /\ (missing_statistics = {} \/ \E j \in parameter_errors : j < first_of(missing_statistics)) => "tensor_name" \notin DOMAIN ValueOf(materialized)
        /\ parameter_errors # {} => ValueOf(materialized).error # ""
        /\ constants_initialized_on_the_spot
        /\ (ValueOf(materialize_call).name \in SameAsInputScaleCalls /\ Len(own_parameter_tensors) = 1 /\ missing_statistics = {} /\ parameter_errors = {} /\ own_parameter_tensors[1].name \notin DOMAIN calibration_qsvs) => ValueOf(materialized) = Raised("KeyError")
        /\ (ValueOf(materialize_call).name \in SameAsInputScaleCalls /\ Len(own_parameter_tensors) = 1 /\ parameter_errors = {} /\ own_parameter_tensors[1].name \in DOMAIN calibration_qsvs) => ValueOf(materialized).error = ""
        /\ (ValueOf(materialize_call).name = "materialize_fc_conv" /\ current_op_info.op_quant_config.activation_tensor_config = None /\ current_op_info.op_quant_config.execution_mode \in {WEIGHT_ONLY, DRQ} /\ parameter_errors = {}) => ValueOf(materialized).error = ""
        /\ (ValueOf(materialize_call).name = "materialize_op_with_output_activation_constraint" /\ current_op_info.op_quant_config.activation_tensor_config = None /\ Len(current_op_info.op.outputs) = 1 /\ parameter_errors = {}) => ValueOf(materialized).error = ""

\* C14 witness: a fully-connected was materialized in SRQ mode with an
\* entry for the input only: the call raised a ValueError naming the
\* output, after the weight's parameters were computed from its data.
C14_Witness ==
    /\ Called("materialize_fc_conv")
    /\ current_op_info.op_quant_config.execution_mode = SRQ
    /\ current_op_info.op_quant_config.activation_tensor_config # None
    /\ DOMAIN calibration_qsvs = {"input"}
    /\ ValueOf(materialized).error = "ValueError"
    /\ ValueOf(materialized).tensor_name = "output"

\* C15: materialize_op_with_output_activation_constraint raises ValueError
\* unless the operator has exactly one output; with one output and the
\* standard materialization returning, the result is the standard one
\* when no activation config is set; when one is set and its bit width
\* has a registered override, every entry but the last is the standard
\* one and the last keeps its name, consumers, producer subgraph_op_id
\* and transformations and takes the override as producer parameters;
\* when no override is registered for the bit width it raises ValueError.
C15_OutputActivationConstraint ==
    Called("materialize_op_with_output_activation_constraint") =>
        LET standard == materialize_standard_op(current_op_info, current_graph_info, calibration_qsvs, {}, {})
            constraints == ValueOf(materialize_call).output_activation_constraints
            config == current_op_info.op_quant_config.activation_tensor_config
            outcome == ValueOf(materialized)
        IN  /\ Len(current_op_info.op.outputs) # 1 => outcome = Raised("ValueError")
            /\ (Len(current_op_info.op.outputs) = 1 /\ standard.error # "") => outcome = standard
            /\ (Len(current_op_info.op.outputs) = 1 /\ standard.error = "") =>
                   /\ config = None => outcome = standard
                   /\ (config # None /\ ValueOf(config).num_bits \notin DOMAIN constraints) => outcome = Raised("ValueError")
                   /\ (config # None /\ ValueOf(config).num_bits \in DOMAIN constraints) =>
                          LET n == Len(standard.value)
                          IN  /\ outcome.error = ""
                              /\ Len(outcome.value) = n
                              /\ \A i \in 1..(n - 1) : outcome.value[i] = standard.value[i]
                              /\ outcome.value[n].tensor_name = standard.value[n].tensor_name
                              /\ outcome.value[n].consumers = standard.value[n].consumers
                              /\ ValueOf(outcome.value[n].producer).subgraph_op_id = ValueOf(standard.value[n].producer).subgraph_op_id
                              /\ ValueOf(outcome.value[n].producer).transformations = ValueOf(standard.value[n].producer).transformations
                              /\ ValueOf(outcome.value[n].producer).parameters = Some(constraints[ValueOf(config).num_bits])

\* C15 witness: a softmax with one input and one output, both calibrated,
\* was materialized in SRQ mode with 16-bit symmetric activations and
\* overrides for 8 and 16 bits: the output's producer is [ADD_DEQUANTIZE]
\* with scale 1/32768 and zero point 0, which is not what its calibrated
\* range gives, and the input entry has the input's own parameters.
C15_Witness ==
    /\ Called("materialize_op_with_output_activation_constraint")
    /\ current_op_info.op.inputs = <<0>>
    /\ current_op_info.op_quant_config.execution_mode = SRQ
    /\ current_op_info.op_quant_config.activation_tensor_config = Some(TensorQuantizationConfig(16, TRUE, FALSE))
    /\ DOMAIN ValueOf(materialize_call).output_activation_constraints = {8, 16}
    /\ ValueOf(materialized).error = ""
    /\ Len(ValueOf(materialized).value) = 2
    /\ ValueOf(materialized).value[2].tensor_name = "output"
    /\ ValueOf(ValueOf(materialized).value[2].producer).transformations = <<QuantTransformation.ADD_DEQUANTIZE>>
    /\ ValueOf(ValueOf(ValueOf(materialized).value[2].producer).parameters).scale.data = << <<1, 32768>> >>
    /\ ValueOf(ValueOf(ValueOf(materialized).value[2].producer).parameters) # get_tensor_quant_params(current_op_info, calibration_qsvs["output"], TensorQuantizationConfig(16, TRUE, FALSE), None).value
    /\ consumer_parameters(ValueOf(materialized).value[1]) = Some(get_tensor_quant_params(current_op_info, calibration_qsvs["input"], TensorQuantizationConfig(16, TRUE, FALSE), None).value)

\* C20 as stated: check_drq_config returns without error for
\* FULLY_CONNECTED and CONV_2D with a symmetric weight config of 4 or 8
\* bits, channel-wise or not, and raises ValueError for an operator
\* outside the dynamic-range supported set, for a bit width other than 4
\* or 8 and for asymmetric weights.
C20_DrqConfigInt4ForBoth ==
    Called("check_drq_config") =>
        LET weight_config == current_op_info.op_quant_config.weight_tensor_config
        IN  /\ (current_op_info.op_name \in {FULLY_CONNECTED, CONV_2D} /\ weight_config.symmetric /\ weight_config.num_bits \in {4, 8}) => ValueOf(materialized) = Returned(None)
            /\ (current_op_info.op_name \in {RESHAPE, SOFTMAX, "AVERAGE_POOL_2D", "MUL"} \/ weight_config.num_bits \notin {4, 8} \/ ~weight_config.symmetric) => ValueOf(materialized) = Raised("ValueError")

\* C20 amended: check_drq_config returns without error for
\* FULLY_CONNECTED with a symmetric weight config of 4 or 8 bits and for
\* CONV_2D, like the other operators of the dynamic-range set, with a
\* symmetric weight config of 8 bits, channel-wise or not;
\* it raises ValueError for CONV_2D with 4 bits, for an operator outside
\* the dynamic-range supported set, for a bit width other than 4 or 8 and
\* for asymmetric weights.
C20_DrqConfigInt4ForFullyConnectedOnly ==
    Called("check_drq_config") =>
        LET weight_config == current_op_info.op_quant_config.weight_tensor_config
            accepted == /\ weight_config.symmetric
                        /\ \/ current_op_info.op_name = FULLY_CONNECTED /\ weight_config.num_bits \in {4, 8}
                           \/ current_op_info.op_name \in {CONV_2D, "BATCH_MATMUL", "EMBEDDING_LOOKUP", "DEPTHWISE_CONV_2D"} /\ weight_config.num_bits = 8
        IN  /\ accepted => ValueOf(materialized) = Returned(None)
            /\ ~accepted => ValueOf(materialized) = Raised("ValueError")

\* C20 witness: check_drq_config was asked about CONV_2D with symmetric
\* channel-wise 4-bit weights and raised ValueError.
C20_Witness ==
    /\ Called("check_drq_config")
    /\ current_op_info.op_name = CONV_2D
    /\ current_op_info.op_quant_config.weight_tensor_config = TensorQuantizationConfig(4, TRUE, TRUE)
    /\ current_op_info.op_quant_config.execution_mode = DRQ
    /\ ValueOf(materialized) = Raised("ValueError")

(***************************************************************************)
(* Properties of the recipe manager: the order of the rules, loading and   *)
(* saving a recipe                                                         *)
(***************************************************************************)
IsLoad == call.name = "load_quantization_recipe"
IsGetRecipe == call.name = "get_quantization_recipe"

\* the stored rules, scope after scope
RECURSIVE rules_of(_)
rules_of(configs) == IF configs = <<>> THEN <<>> ELSE Head(configs).recipes \o rules_of(Tail(configs))

stored_rules == rules_of(scope_configs)

\* the rule is looked up in the algorithm manager and is not registered
is_rejected(operation, algorithm_key) == operation # ALL /\ algorithm_key # NO_QUANT /\ ~is_op_registered(algorithm_key, operation)

\* C16: an add_quantization_config call with a non-ALL operator that
\* returns replaces the rule of that operator in the scope's list where it
\* stands, the length of the list unchanged, or, when the list has no rule
\* for the operator, appends the new rule to it; a scope not yet present
\* becomes the last of the table with the new rule alone; every other rule
\* and every other scope is as before, in the same order.
C16_ReplaceInPlaceOrAppend ==
    [][ (call'.name = "add_quantization_config" /\ n_adds' = n_adds + 1 /\ call'.operation # ALL /\ ~call'.raised) =>
          LET before == scope_recipes(scope_configs, call'.regex)
              after == scope_recipes(scope_configs', call'.regex)
              rule == OpQuantizationRecipe(call'.regex, call'.operation, call'.algorithm_key, call'.op_config, call'.override_algorithm)
              has_rule == \E i \in 1..Len(before) : before[i].operation = call'.operation
          IN  /\ has_rule => /\ Len(after) = Len(before)
                             /\ \A i \in 1..Len(before) : after[i] = IF before[i].operation = call'.operation THEN rule ELSE before[i]
              /\ ~has_rule => after = Append(before, rule)
              /\ scope_index(scope_configs, call'.regex) # 0 =>
                     /\ Len(scope_configs') = Len(scope_configs)
                     /\ \A i \in 1..Len(scope_configs) :
                            /\ scope_configs'[i].regex = scope_configs[i].regex
                            /\ scope_configs[i].regex # call'.regex => scope_configs'[i].recipes = scope_configs[i].recipes
              /\ scope_index(scope_configs, call'.regex) = 0 =>
                     scope_configs' = Append(scope_configs, [regex |-> call'.regex, recipes |-> <<rule>>]) ]_vars

\* C16 witness: a rule for FULLY_CONNECTED was added to a scope that held a
\* FULLY_CONNECTED rule followed by a rule for another operator: the new
\* rule stands first and the other rule second.
C16_Witness ==
    /\ IsAdd
    /\ ~call.raised
    /\ call.operation = FULLY_CONNECTED
    /\ Len(call.before) = 2
    /\ call.before[1].operation = FULLY_CONNECTED
    /\ call.before[1] # CallRule
    /\ scope_recipes(scope_configs, call.regex) = <<CallRule, call.before[2]>>

\* C17: of two stored rules that both apply to a query (their scope regex
\* is found in the scope name, their operation is the target or ALL) and
\* name the same algorithm, get_quantization_configs does not return the
\* config of the one whose add_quantization_config call came earlier.  The
\* k-th add_quantization_config call of a run stores config k.
C17_LaterAddHasPriority ==
    IsGet =>
        \A i, j \in 1..Len(QueryVisited) :
            (/\ QueryVisited[i].algorithm_key = QueryVisited[j].algorithm_key
             /\ QueryVisited[i].op_config < QueryVisited[j].op_config)
            => call.result # [key |-> QueryVisited[i].algorithm_key, config |-> QueryVisited[i].op_config]

\* a recipe as get_quantization_recipe writes one: the records of a scope
\* follow each other, no two records of a scope name the same operation
\* and an ALL record is the first of its scope
is_grouped_recipe(recipe) ==
    \A i, j \in 1..Len(recipe) :
        (i < j /\ recipe[i].regex = recipe[j].regex) =>
            /\ \A k \in i..j : recipe[k].regex = recipe[i].regex
            /\ recipe[i].operation # recipe[j].operation
            /\ recipe[j].operation # ALL

\* C18 as stated: after load_quantization_recipe(r) returned,
\* get_quantization_recipe() returns exactly r.
C18_LoadThenGetReturnsRecipe ==
    (IsGetRecipe /\ loaded # <<>>) => call.recipe = loaded[1]

\* C18 amended: after load_quantization_recipe(r) returned,
\* get_quantization_recipe() returns records of r only, whatever rules the
\* manager held before the load, and returns exactly r if and only if in r
\* the records of a scope follow each other, no two records of a scope
\* name the same operation and an ALL record is the first of its scope.
C18_LoadThenGetReturnsGroupedRecipe ==
    (IsGetRecipe /\ loaded # <<>>) =>
        /\ \A i \in 1..Len(call.recipe) : \E k \in 1..Len(loaded[1]) : call.recipe[i] = loaded[1][k]
        /\ (call.recipe = loaded[1]) <=> is_grouped_recipe(loaded[1])

\* C18 witness: a recipe of two records for two scopes was loaded after an
\* earlier add_quantization_config call of the run, and
\* get_quantization_recipe returned the two records in order.
C18_Witness ==
    /\ IsGetRecipe
    /\ loaded # <<>>
    /\ Len(loaded[1]) = 2
    /\ loaded[1][1].op_config = to_dict(2)
    /\ loaded[1][1].regex # loaded[1][2].regex
    /\ call.recipe = loaded[1]
    /\ Len(scope_configs) = 2

\* C19: a rule that names an operator not registered for the rule's
\* algorithm is rejected with an error when it is added or loaded: an add
\* call raises exactly when its rule is one, a load raises exactly when
\* one of its records is one; no such rule is ever in the table, and
\* every rule get_quantization_configs visits, the one whose algorithm
\* and config it returns included, is a stored rule that is not one.  (A
\* rule for ALL names no operator, and NO_QUANT needs no registration.)
C19_UnregisteredOperatorRejected ==
    /\ \A i \in 1..Len(stored_rules) : ~is_rejected(stored_rules[i].operation, stored_rules[i].algorithm_key)
    /\ IsAdd => (call.raised <=> is_rejected(call.operation, call.algorithm_key))
    /\ IsLoad => (call.raised <=> \E i \in 1..Len(call.recipe) : is_rejected(call.recipe[i].operation, call.recipe[i].algorithm_key))
    /\ IsGet => /\ \A i \in 1..Len(QueryVisited) : /\ \E k \in 1..Len(stored_rules) : stored_rules[k] = QueryVisited[i]
                                                    /\ ~is_rejected(QueryVisited[i].operation, QueryVisited[i].algorithm_key)
                /\ \/ call.result = [key |-> NO_QUANT, config |-> DefaultOpConfig]
                   \/ \E i \in 1..Len(QueryVisited) : QueryVisited[i].algorithm_key = call.result.key /\ QueryVisited[i].op_config = call.result.config

\* C19 witness: a recipe whose second record names CUSTOM_OP with the
\* min/max algorithm was loaded: the load raised and no rule of the
\* table names CUSTOM_OP.
C19_Witness ==
    /\ IsLoad
    /\ call.raised
    /\ Len(call.recipe) >= 2
    /\ call.recipe[2].operation = CUSTOM_OP
    /\ call.recipe[2].algorithm_key = PTQ
    /\ ~is_op_registered(PTQ, CUSTOM_OP)
    /\ \A k \in 1..Len(stored_rules) : stored_rules[k].operation # CUSTOM_OP

\* C21: check_srq_config returns exactly when the operator is in the
\* static-range set, the activation config is present, integer and either
\* 8 bits or symmetric 16 bits, and the weight config is symmetric with 8
\* bits or, for an operator of the int4 list, 4 bits; every other
\* configuration raises ValueError
C21_SrqConfigAcceptedExactly ==
    Called("check_srq_config") =>
        LET op_name == current_op_info.op_name
            act_config == current_op_info.op_quant_config.activation_tensor_config
            weight_config == current_op_info.op_quant_config.weight_tensor_config
            accepted == /\ op_name \in {FULLY_CONNECTED, CONV_2D, "AVERAGE_POOL_2D", RESHAPE, SOFTMAX, "DEPTHWISE_CONV_2D", "TANH", "TRANSPOSE", "GELU", "ADD", "SUB", "MUL", "BATCH_MATMUL"}
                        /\ act_config # None
                        /\ ValueOf(act_config).dtype = "INT"
                        /\ \/ ValueOf(act_config).num_bits = 8
                           \/ ValueOf(act_config).num_bits = 16 /\ ValueOf(act_config).symmetric
                        /\ weight_config.symmetric
                        /\ \/ weight_config.num_bits = 8
                           \/ weight_config.num_bits = 4 /\ op_name \in {FULLY_CONNECTED, CONV_2D, "EMBEDDING_LOOKUP"}
        IN  materialized = Some(IF accepted THEN Returned(None) ELSE Raised("ValueError"))

\* a convolution with symmetric 16-bit activations and 4-bit symmetric
\* weights passed the check
C21_Witness ==
    /\ Called("check_srq_config")
    /\ current_op_info.op_name = CONV_2D
    /\ current_op_info.op_quant_config.activation_tensor_config = Some(TensorQuantizationConfig(16, TRUE, FALSE))
    /\ current_op_info.op_quant_config.weight_tensor_config = TensorQuantizationConfig(4, TRUE, FALSE)
    /\ materialized = Some(Returned(None))

(***************************************************************************)
(* Claims about the numeric codec                                          *)
(***************************************************************************)
\* a <= b for two fractions with positive denominators
fraction_leq(a, b) == a[1] * b[2] <= b[1] * a[2]

CodecCalled(name) == quant_call # None /\ ValueOf(quant_call).name = name

\* the parameters the codec made of the range
codec_params == ValueOf(ValueOf(quant_call).quant_params)

\* C22: for a range with min <= max that is not [0, 0], a bit width and an
\* encoding, with params made by tensor_zp_scale_from_min_max, every value
\* x of the range comes back from uniform_dequantize(uniform_quantize(x,
\* params), params) at most scale / 2 away from x
C22_RoundTripWithinHalfScale ==
    (CodecCalled("uniform_dequantize") /\ ValueOf(ValueOf(quant_call).dequantized).error = "") =>
        \A i \in 1..Len(ValueOf(quant_call).tensor_data.data) :
            LET x == ValueOf(quant_call).tensor_data.data[i]
                back == ValueOf(ValueOf(quant_call).dequantized).value.data[i]
                scale == codec_params.scale.data[1]
            IN  2 * scale[2] * abs(back[1] - x * back[2]) <= scale[1] * back[2]

\* a value of an asymmetric 4-bit range came back changed: the range
\* [-3, 4] has scale 7/15, and 1 comes back as 14/15
C22_Witness ==
    /\ CodecCalled("uniform_dequantize")
    /\ ~ValueOf(quant_call).symmetric
    /\ ValueOf(quant_call).num_bits = 4
    /\ ValueOf(quant_call).tensor_data.data = <<-3, 1, 4>>
    /\ codec_params.scale.data = << <<7, 15>> >>
    /\ ValueOf(ValueOf(quant_call).quantized).value.data = <<-8, 0, 7>>
    /\ ValueOf(ValueOf(quant_call).dequantized).error = ""
    /\ ValueOf(ValueOf(quant_call).dequantized).value.data[2] = <<14, 15>>

\* C23: the zero point tensor_zp_scale_from_min_max returns is 0 for a
\* symmetric encoding; for an asymmetric one the scale is that of the range
\* extended to hold zero, (max(max, 0) - min(min, 0)) / (qmax - qmin), the
\* zero point lies in [qmin, qmax], and for a range with min >= 0 the
\* lowest code qmin stands for the real value 0
C23_ZeroPoint ==
    (quant_call # None /\ ValueOf(quant_call).quant_params # None) =>
        LET min_value == ValueOf(quant_call).min_value
            max_value == ValueOf(quant_call).max_value
            num_bits == ValueOf(quant_call).num_bits
            qmin == -pow2(num_bits - 1)
            qmax == pow2(num_bits - 1) - 1
            scale == codec_params.scale.data[1]
            zero_point == codec_params.zero_point.data[1]
        IN  IF ValueOf(quant_call).symmetric
            THEN zero_point = 0
            ELSE /\ scale[1] * (qmax - qmin) = ((IF max_value > 0 THEN max_value ELSE 0) - (IF min_value < 0 THEN min_value ELSE 0)) * scale[2]
                 /\ qmin <= zero_point
                 /\ zero_point <= qmax
                 /\ (qmin - zero_point) * scale[1] <= 0
                 /\ (qmax - zero_point) * scale[1] >= 0
                 /\ min_value >= 0 => uniform_dequantize(ndarray("int8", <<1>>, <<qmin>>), reshaped(codec_params, <<1>>, <<1>>)).value.data[1] = <<0, 1>>

\* the asymmetric 8-bit parameters of the range [2, 4]: scale 4/255 and
\* zero point -128
C23_Witness ==
    /\ CodecCalled("tensor_zp_scale_from_min_max")
    /\ ~ValueOf(quant_call).symmetric
    /\ ValueOf(quant_call).num_bits = 8
    /\ ValueOf(quant_call).min_value = 2
    /\ ValueOf(quant_call).max_value = 4
    /\ codec_params.scale.data = << <<4, 255>> >>
    /\ codec_params.zero_point.data = <<-128>>

\* the batch statistics seen up to the k-th calibration call
observed_qsvs == {calibrate_calls[k].new_qsv : k \in 1..Len(calibrate_calls)}

C24_BiasParameters ==
    (Called("materialize_fc_conv") /\ FcConvReturned /\ entries_of("bias") # {} /\ consumer_parameters(entry_of("bias")) # None) =>
        LET bias_params == ValueOf(consumer_parameters(entry_of("bias")))
            input_params == ValueOf(consumer_parameters(entry_of("input")))
            weight_params == ValueOf(consumer_parameters(entry_of("weight")))
            num_channels == Len(weight_params.scale.data)
        IN  /\ bias_params.symmetric
            /\ \A i \in 1..Len(bias_params.zero_point.data) : bias_params.zero_point.data[i] = 0
            /\ bias_params.num_bits = IF input_params.num_bits = 8 THEN 32 ELSE 64
            /\ bias_params.scale.shape = <<num_channels>>
            /\ Len(bias_params.scale.data) = num_channels
            /\ \A i \in 1..num_channels :
                   /\ bias_params.scale.data[i][1] * input_params.scale.data[1][2] * weight_params.scale.data[i][2] = input_params.scale.data[1][1] * weight_params.scale.data[i][1] * bias_params.scale.data[i][2]
            /\ bias_params.quantized_data = Some(uniform_quantize(ndarray("float32", <<2>>, <<5, -7>>), [bias_params EXCEPT !.quantized_data = None]).value)

\* the bias of a fully-connected with 16-bit symmetric activations and
\* channel-wise 8-bit weights got 64-bit parameters with two scales
C24_Witness ==
    /\ Called("materialize_fc_conv")
    /\ FcConvReturned
    /\ current_op_info.op_quant_config = OpQuantizationConfig(Some(TensorQuantizationConfig(16, TRUE, FALSE)), TensorQuantizationConfig(8, TRUE, TRUE), SRQ)
    /\ entries_of("bias") # {}
    /\ consumer_parameters(entry_of("bias")) # None
    /\ ValueOf(consumer_parameters(entry_of("bias"))).num_bits = 64
    /\ Len(ValueOf(consumer_parameters(entry_of("bias"))).scale.data) = 2
    /\ ValueOf(consumer_parameters(entry_of("bias"))).symmetric

(***************************************************************************)
(* Claims about what quantize_tensor returns and leaves behind             *)
(***************************************************************************)
\* C26: the TransformationInfo quantize_tensor returns has as op_id the
\* producer of the quantized tensor (the producer argument) and 0 as
\* num_ops_added
C26_InfoNamesProducer ==
    Applied(QuantTransformation.QUANTIZE_TENSOR) =>
        /\ last_info.op_id = last_edit.producer
        /\ last_info.num_ops_added = 0

\* C30: a quantize_tensor call that raises ValueError for a bit width
\* without tflite type leaves the type and the quantization metadata of
\* every tensor and the contents of every buffer as they were
C30_RaiseLeavesGraph == [][(~aborted /\ aborted') => (tensors' = tensors /\ buffers' = buffers)]_vars

(***************************************************************************)
(* Claims about the rule table as a whole                                  *)
(***************************************************************************)
\* C28: after any sequence of add_quantization_config and
\* load_quantization_recipe calls, returned or raised, every scope of the
\* table has at least one rule, at most one rule per operation, only rules
\* whose regex is the scope's key, and a rule for ALL nowhere but first
C28_RuleTableWellFormed ==
    \A s \in 1..Len(scope_configs) :
        /\ scope_configs[s].recipes # <<>>
        /\ \A i, j \in 1..Len(scope_configs[s].recipes) : scope_configs[s].recipes[i].operation = scope_configs[s].recipes[j].operation => i = j
        /\ \A i \in 1..Len(scope_configs[s].recipes) :
               /\ scope_configs[s].recipes[i].regex = scope_configs[s].regex
               /\ scope_configs[s].recipes[i].operation = ALL => i = 1

\* a load raised on its third record and left one scope with the rule for
\* ALL first and the rule of a specific operator behind it
C28_Witness ==
    /\ IsLoad
    /\ call.raised
    /\ Len(call.recipe) = 3
    /\ Len(scope_configs) = 1
    /\ Len(scope_configs[1].recipes) = 2
    /\ scope_configs[1].recipes[1].operation = ALL
    /\ scope_configs[1].recipes[2].operation = FULLY_CONNECTED

\* C29: a load_quantization_recipe call that raises because a record is
\* rejected leaves the rule table as it was before the call
C29_RejectedLoadKeepsTable == [][(call'.name = "load_quantization_recipe" /\ call'.raised) => scope_configs' = scope_configs]_vars

(***************************************************************************)
(* Claims about the quantized dimension                                    *)
(***************************************************************************)
RECURSIVE elements_per_index(_, _)
\* how many elements of an array of the shape lie between two neighbours
\* along dimension dim (0-based): the product of the later dimensions
elements_per_index(shape, dim) == IF Len(shape) <= dim + 1 THEN 1 ELSE shape[Len(shape)] * elements_per_index(SubSeq(shape, 1, Len(shape) - 1), dim)

\* the parameters the wrapper returned for the weight
weight_params == ValueOf(ValueOf(ValueOf(materialized).value.consumers)[1].parameters)

\* C27: for the constant weight of FULLY_CONNECTED, CONV_2D,
\* EMBEDDING_LOOKUP, DEPTHWISE_CONV_2D and BATCH_MATMUL the quantized
\* dimension of the parameters is absent without a channel-wise config,
\* and with one it is 0, 0, 0, 3 and, for BATCH_MATMUL, rank - 2 with adj_y
\* and rank - 1 without; the min/max init_tensor_min_max computes, and the
\* scale and zero point made of them when the store holds nothing for the
\* weight, have one entry per index of that dimension, taken over the
\* elements that share the index, and one entry over all elements when the
\* dimension is absent
C27_QuantizedDimension ==
    (Called("get_tensor_transformation_params_wrapper") /\ current_op_info.op_name \in {FULLY_CONNECTED, CONV_2D, "EMBEDDING_LOOKUP", "DEPTHWISE_CONV_2D", "BATCH_MATMUL"}) =>
        LET shape == At(current_graph_info.subgraph_tensors, 1).shape
            data == <<1, -2, 3, 4>>
            config == current_op_info.op_quant_config.weight_tensor_config
            dimension == IF current_op_info.op_name = "DEPTHWISE_CONV_2D" THEN 3
                         ELSE IF current_op_info.op_name # "BATCH_MATMUL" THEN 0
                         ELSE IF current_op_info.op.builtinOptions.adjY THEN Len(shape) - 2 ELSE Len(shape) - 1
            num_entries == IF config.channel_wise THEN shape[dimension + 1] ELSE 1
            sharing(entry) == IF config.channel_wise THEN {data[i] : i \in {j \in 1..4 : ((j - 1) \div elements_per_index(shape, dimension)) % shape[dimension + 1] = entry - 1}} ELSE {data[i] : i \in 1..4}
            kept_shape == [k \in 1..Len(shape) |-> IF config.channel_wise /\ k = dimension + 1 THEN shape[k] ELSE 1]
            min_value == ndarray("float32", kept_shape, [entry \in 1..num_entries |-> CHOOSE x \in sharing(entry) : \A y \in sharing(entry) : x <= y])
            max_value == ndarray("float32", kept_shape, [entry \in 1..num_entries |-> CHOOSE x \in sharing(entry) : \A y \in sharing(entry) : x >= y])
        IN  /\ ValueOf(materialized).error = "" => weight_params.quantized_dimension = IF config.channel_wise THEN Some(dimension) ELSE None
            /\ init_tensor_min_max(At(current_graph_info.subgraph_tensors, 1), current_graph_info, current_op_info) = [min |-> min_value, max |-> max_value]
            /\ "weight" \notin DOMAIN calibration_qsvs =>
                   /\ ValueOf(materialized).error = ""
                   /\ weight_params.scale = tensor_zp_scale_from_min_max(min_value, max_value, config.num_bits, config.symmetric).scale
                   /\ weight_params.zero_point = tensor_zp_scale_from_min_max(min_value, max_value, config.num_bits, config.symmetric).zp

\* a batch matmul with a transposed right operand of shape [1, 2, 2] and
\* symmetric channel-wise 8-bit weights: dimension 1, one scale for
\* [1, -2] and one for [3, 4]
C27_Witness ==
    /\ Called("get_tensor_transformation_params_wrapper")
    /\ current_op_info.op_name = "BATCH_MATMUL"
    /\ current_op_info.op.builtinOptions.adjY
    /\ At(current_graph_info.subgraph_tensors, 1).shape = <<1, 2, 2>>
    /\ current_op_info.op_quant_config.weight_tensor_config = TensorQuantizationConfig(8, TRUE, TRUE)
    /\ weight_params.quantized_dimension = Some(1)
    /\ weight_params.scale = ndarray("float32", <<1, 2, 1>>, << <<2, 127>>, <<4, 127>> >>)

====
